---- MODULE Spec2Model ----
(***************************************************************************)
(* A model of the core of the CAMINOS interconnection-network simulator:   *)
(*   - the iSLIP allocator            (src/src/allocator/islip.rs)         *)
(*   - the credit/virtual-channel transmission mechanism                   *)
(*                                    (src/src/router/mod.rs)              *)
(*   - the Basic router               (src/src/router/basic.rs)            *)
(*   - the ExplicitUpDown routing     (src/src/routing/updown.rs)          *)
(* Each subsystem has its own specification over the shared variables; a   *)
(* specification keeps the variables of the other subsystems unchanged.    *)
(* The event queue, the servers, the topology, the routing of the ring and *)
(* the virtual channel policies are not part of these sources: they follow *)
(* the specification of the simulator.                                     *)
(***************************************************************************)
EXTENDS Integers, Sequences, FiniteSets, Bags, TLC

VARIABLES
    islip,      \* the ISLIPAllocator struct
    gr,         \* the GrantedRequests returned by the last perform_allocation
    islip_log,  \* history: what the last perform_allocation was called with
    fixed,      \* the request set re-added before every allocation ({}: none yet)
    routers,    \* the Basic routers of the network
    servers,    \* the servers attached to the routers
    packets,    \* the packets created so far
    queue,      \* the event queue of the simulation
    phase,      \* the part of the current cycle being executed
    net_log,    \* history: what the routers transmitted
    updown      \* the ExplicitUpDown routing and the packet it routes

islip_vars == <<islip, gr, islip_log, fixed>>
net_vars == <<routers, servers, packets, queue, phase, net_log>>
vars == <<islip, gr, islip_log, fixed, routers, servers, packets, queue, phase, net_log,
          updown>>

\* Option::None of an Option<usize>.
None == -1

\* The value of updown while another subsystem runs: nothing is routed.
NoRouting == [routing |-> <<>>, topology |-> <<>>, source |-> None, target |-> None,
              current |-> None, hops |-> 0]

Min(a, b) == IF a < b THEN a ELSE b
Max(a, b) == IF a > b THEN a ELSE b

Range(s) == {s[i] : i \in 1..Len(s)}

(***************************************************************************)
(*                         iSLIP allocator                                 *)
(***************************************************************************)

\* Largest number of clients, resources and iterations of a configuration.
MaxClients == 2
MaxResources == 3
MaxIterations == 2
\* Largest number of requests added between two allocations.
MaxRequests == 3
\* Largest number of clients and of resources when a request set is repeated.
MaxRepeatSide == 2

Clients == 0..(islip.num_clients - 1)
Resources == 0..(islip.num_resources - 1)

\* RoundVec::new
RoundVecNew(size) == [pointer |-> 0, requested_indices |-> <<>>, n |-> size]

\* RoundVec::add
RoundVecAdd(rv, element) ==
    [rv EXCEPT !.requested_indices = Append(@, element)]

IncrementPointerOnEveryMatch(rv, islip_iter) ==
    [rv EXCEPT !.pointer = (@ + 1) % rv.n]

IncrementPointerNever(rv, islip_iter) == rv

\* RoundVec::increment_pointer, under the guard `islip_iter == 0` of its two
\* call sites in perform_allocation.
IncrementPointer(rv, islip_iter) ==
    IF islip_iter = 0 THEN [rv EXCEPT !.pointer = (@ + 1) % rv.n] ELSE rv

\* The key of RoundVec::sort: indices below the pointer go after the others.
SortKey(k, pointer, size) == IF k < pointer THEN k + size ELSE k

RECURSIVE InsertSorted(_, _, _, _)
InsertSorted(s, e, pointer, size) ==
    IF s = <<>> THEN <<e>>
    ELSE IF SortKey(e, pointer, size) < SortKey(Head(s), pointer, size)
         THEN <<e>> \o s
         ELSE <<Head(s)>> \o InsertSorted(Tail(s), e, pointer, size)

RECURSIVE SortByKey(_, _, _)
SortByKey(s, pointer, size) ==
    IF s = <<>> THEN <<>>
    ELSE InsertSorted(SortByKey(Tail(s), pointer, size), Head(s), pointer, size)

SortIgnoringPointer(rv) ==
    [rv EXCEPT !.requested_indices = SortByKey(@, 0, rv.n)]

\* A variant of sort that leaves the indices in the order of their arrival.
RoundVecSortKeepOrder(rv) == rv

\* RoundVec::sort
RoundVecSort(rv) ==
    [rv EXCEPT !.requested_indices = SortByKey(@, rv.pointer, rv.n)]

\* RoundVec::clear
RoundVecClear(rv) == [rv EXCEPT !.requested_indices = <<>>]

\* ISLIPAllocator::new
ISLIPAllocatorNew(nc, nr, ni) ==
    [ num_clients    |-> nc,
      num_resources  |-> nr,
      num_iterations |-> ni,
      in_match       |-> [c \in 0..(nc - 1) |-> None],
      out_match      |-> [r \in 0..(nr - 1) |-> None],
      in_requests    |-> [c \in 0..(nc - 1) |-> RoundVecNew(nr)],
      out_requests   |-> [r \in 0..(nr - 1) |-> RoundVecNew(nc)] ]

\* A variant of is_valid_request that only looks at the client.
IsValidRequestClientOnly(a, client, resource) == client < a.num_clients

\* ISLIPAllocator::is_valid_request
IsValidRequest(a, client, resource) ==
    ~(client >= a.num_clients \/ resource >= a.num_resources)

\* The first client of a resource's (sorted) list that is still unmatched.
RECURSIVE FirstFree(_, _)
FirstFree(s, in_match) ==
    IF s = <<>> THEN None
    ELSE IF in_match[Head(s)] = None THEN Head(s)
         ELSE FirstFree(Tail(s), in_match)

GrantAlsoMatched(a, resource) ==
    IF a.out_requests[resource].requested_indices = <<>>
    THEN None
    ELSE FirstFree(a.out_requests[resource].requested_indices, a.in_match)

\* A variant of the grant phase in which a resource grants the first client
\* of its list, matched or not.
GrantFirstRequested(a, resource) ==
    IF a.out_match[resource] # None
       \/ a.out_requests[resource].requested_indices = <<>>
    THEN None
    ELSE Head(a.out_requests[resource].requested_indices)

\* Grant phase of one iteration, for one resource: grants[resource].
Grant(a, resource) ==
    IF a.out_match[resource] # None
       \/ a.out_requests[resource].requested_indices = <<>>
    THEN None
    ELSE FirstFree(a.out_requests[resource].requested_indices, a.in_match)

\* The first resource of a client's (sorted) list whose grant names the client.
RECURSIVE FirstGranted(_, _, _)
FirstGranted(s, grants, client) ==
    IF s = <<>> THEN None
    ELSE IF grants[Head(s)] = client THEN Head(s)
         ELSE FirstGranted(Tail(s), grants, client)

\* Accept phase of one iteration for one client: the client accepts the first
\* resource of its list whose grant names it.
\* st = [a |-> allocator, gr |-> granted requests so far].
AcceptClient(st, grants, client, islip_iter) ==
    LET a == st.a
        resource == FirstGranted(a.in_requests[client].requested_indices,
                                 grants, client)
    IN IF resource = None THEN st
       ELSE [a  |-> [a EXCEPT
                       !.in_match[client] = resource,
                       !.out_match[resource] = client,
                       !.in_requests[client] = IncrementPointer(@, islip_iter),
                       !.out_requests[resource] = IncrementPointer(@, islip_iter)],
             gr |-> Append(st.gr, [client |-> client, resource |-> resource,
                                   priority |-> 0, iter |-> islip_iter])]

\* Accept phase of one iteration, clients client..num_clients-1 in order.
\* (Intermediate results are bound as values, so each is computed once.)
RECURSIVE Accept(_, _, _, _)
Accept(st, grants, client, islip_iter) ==
    IF client >= st.a.num_clients THEN st
    ELSE CHOOSE res \in {Accept(s2, grants, client + 1, islip_iter) :
                            s2 \in {AcceptClient(st, grants, client, islip_iter)}} : TRUE

\* Iterations islip_iter..num_iterations-1 of perform_allocation.
RECURSIVE Iterations(_, _)
Iterations(st, islip_iter) ==
    IF islip_iter >= st.a.num_iterations THEN st
    ELSE CHOOSE res \in
           {Iterations(s2, islip_iter + 1) :
              s2 \in {Accept(st, g, 0, islip_iter) :
                        g \in {[r \in 0..(st.a.num_resources - 1) |-> Grant(st.a, r)]}}} : TRUE

\* ISLIPAllocator::perform_allocation: [a |-> the allocator after the call,
\* gr |-> the granted requests, in the order they were added].
PerformAllocationResult(a) ==
    LET Sorted(x) == [x EXCEPT
                     !.in_requests  = [c \in DOMAIN @ |-> RoundVecSort(@[c])],
                     !.out_requests = [r \in DOMAIN @ |-> RoundVecSort(@[r])],
                     !.in_match     = [c \in DOMAIN @ |-> None],
                     !.out_match    = [r \in DOMAIN @ |-> None]]
        Cleared(done) ==
            [a  |-> [done.a EXCEPT
                     !.in_requests  = [c \in DOMAIN @ |-> RoundVecClear(@[c])],
                     !.out_requests = [r \in DOMAIN @ |-> RoundVecClear(@[r])]],
             gr |-> done.gr]
    IN CHOOSE res \in
         {Cleared(done) :
            done \in {Iterations([a |-> s0, gr |-> <<>>], 0) : s0 \in {Sorted(a)}}} : TRUE

\* The requests currently recorded in the allocator, as (client, resource) pairs.
RequestsOf(a) ==
    UNION {{<<c, r>> : r \in Range(a.in_requests[c].requested_indices)} :
              c \in 0..(a.num_clients - 1)}

PointersOf(a) ==
    [in  |-> [c \in 0..(a.num_clients - 1) |-> a.in_requests[c].pointer],
     out |-> [r \in 0..(a.num_resources - 1) |-> a.out_requests[r].pointer]]

InitISLIP ==
    /\ \E nc \in 1..MaxClients, nr \in 1..MaxResources, ni \in 1..MaxIterations :
           /\ islip = ISLIPAllocatorNew(nc, nr, ni)
           /\ islip_log = [calls |-> 0, requested |-> {},
                           before |-> PointersOf(ISLIPAllocatorNew(nc, nr, ni)),
                           panicked |-> FALSE]
    /\ gr = <<>>
    /\ fixed = {}
    /\ routers = <<>> /\ servers = <<>> /\ packets = <<>>
    /\ queue = EmptyBag /\ phase = {} /\ net_log = <<>>
    /\ updown = NoRouting

\* ISLIPAllocator::add_request with a valid request that is not yet recorded
\* (the documented assumption of add_request).
AddRequest(client, resource) ==
    /\ ~islip_log.panicked
    /\ IsValidRequest(islip, client, resource)
    /\ <<client, resource>> \notin RequestsOf(islip)
    /\ Cardinality(RequestsOf(islip)) < MaxRequests
    /\ fixed # {} => <<client, resource>> \in fixed
    /\ islip' = [islip EXCEPT
                   !.in_requests[client]  = RoundVecAdd(@, resource),
                   !.out_requests[resource] = RoundVecAdd(@, client)]
    \* the result of the previous allocation has been consumed by the caller
    /\ gr' = <<>>
    /\ islip_log' = [islip_log EXCEPT !.requested = {},
                                      !.before = PointersOf(islip)]
    /\ UNCHANGED fixed

\* ISLIPAllocator::add_request with an invalid request: panics.
AddInvalidRequest(client, resource) ==
    /\ ~islip_log.panicked
    /\ ~IsValidRequest(islip, client, resource)
    /\ islip_log' = [islip_log EXCEPT !.panicked = TRUE]
    /\ UNCHANGED <<islip, gr, fixed>>

\* ISLIPAllocator::perform_allocation
PerformAllocation ==
    /\ ~islip_log.panicked
    /\ fixed # {} => RequestsOf(islip) = fixed
    /\ \E res \in {PerformAllocationResult(islip)} :
          /\ islip' = res.a
          /\ gr' = res.gr
    /\ islip_log' = [islip_log EXCEPT
                       !.calls = Min(@ + 1, 1),
                       !.requested = RequestsOf(islip),
                       !.before = PointersOf(islip)]
    /\ UNCHANGED fixed

\* The caller settles on a request set that it re-adds before every allocation.
FixRequests(S) ==
    /\ ~islip_log.panicked
    /\ fixed = {}
    /\ RequestsOf(islip) = {}
    /\ S # {}
    /\ Cardinality(S) <= MaxRequests
    /\ fixed' = S
    /\ UNCHANGED <<islip, gr, islip_log>>

NextISLIP ==
    \/ \E c \in 0..MaxClients, r \in 0..MaxResources :
           fixed = {} /\ AddRequest(c, r) /\ UNCHANGED <<net_vars, updown>>
    \/ \E c \in 0..MaxClients, r \in 0..MaxResources :
           AddInvalidRequest(c, r) /\ UNCHANGED <<net_vars, updown>>
    \/ PerformAllocation /\ UNCHANGED <<net_vars, updown>>

SpecISLIP == InitISLIP /\ [][NextISLIP]_vars

\* Before settling on the repeated request set the caller runs allocations of
\* a single request each, which leave the pointers in any state they can reach.
WarmUp(client, resource) ==
    /\ fixed = {}
    /\ RequestsOf(islip) = {}
    /\ AddRequest(client, resource)

\* Re-adding one request of the repeated set.
ReAdd(client, resource) ==
    /\ fixed # {}
    /\ AddRequest(client, resource)

NextISLIPRepeat ==
    \/ \E c \in Clients, r \in Resources : WarmUp(c, r) /\ UNCHANGED <<net_vars, updown>>
    \/ \E S \in SUBSET (Clients \X Resources) :
           FixRequests(S) /\ UNCHANGED <<net_vars, updown>>
    \/ \E c \in Clients, r \in Resources : ReAdd(c, r) /\ UNCHANGED <<net_vars, updown>>
    \/ PerformAllocation /\ UNCHANGED <<net_vars, updown>>

\* The caller keeps re-adding the fixed request set and allocating.
FairISLIP == WF_vars(NextISLIPRepeat)

InitISLIPRepeat ==
    /\ InitISLIP
    /\ islip.num_clients <= MaxRepeatSide
    /\ islip.num_resources <= MaxRepeatSide

SpecISLIPRepeat == InitISLIPRepeat /\ [][NextISLIPRepeat]_vars /\ FairISLIP

GrantedPairs == {<<gr[i].client, gr[i].resource>> : i \in 1..Len(gr)}

\* C4: every granted pair was requested, and no client and no resource
\* appears in two granted pairs.
C4_MatchingValid ==
    /\ \A i \in 1..Len(gr) :
          <<gr[i].client, gr[i].resource>> \in islip_log.requested
    /\ \A i, j \in 1..Len(gr) :
          i # j => /\ gr[i].client # gr[j].client
                   /\ gr[i].resource # gr[j].resource

\* An allocation of two iterations, from pointers moved by earlier calls, that
\* granted two of three requests, one of them in the second iteration.
C4_Witness ==
    /\ islip.num_iterations = 2
    /\ Len(gr) = 2
    /\ \E i \in 1..Len(gr) : gr[i].iter = 1
    /\ Cardinality(islip_log.requested) = 3
    /\ \E c \in DOMAIN islip_log.before.in : islip_log.before.in[c] # 0

\* C5: while the same request set is re-added before every allocation, every
\* requested (client, resource) pair is granted again and again.
C5_NonStarvation ==
    \A c \in 0..(MaxClients - 1), r \in 0..(MaxResources - 1) :
        [](<<c, r>> \in fixed => <>(<<c, r>> \in GrantedPairs))

\* Two clients compete for one resource under a repeated request set, from
\* pointers that earlier allocations moved, and the second client is granted.
C5_Witness ==
    /\ {<<0, 0>>, <<1, 0>>} \subseteq fixed
    /\ <<1, 0>> \in GrantedPairs
    /\ islip_log.before.in[0] # 0

\* C6: a match (c,r) accepted in iteration 0 leaves the client's pointer at
\* (r+1) mod num_resources and the resource's pointer at (c+1) mod num_clients;
\* every other pointer is as it was before the allocation.
C6_PointerUpdate ==
    islip_log.calls > 0 /\ islip_log.requested # {} =>
      /\ \A c \in Clients :
           IF \E i \in 1..Len(gr) : gr[i].client = c /\ gr[i].iter = 0
           THEN \A i \in 1..Len(gr) :
                   gr[i].client = c =>
                     islip.in_requests[c].pointer
                        = (gr[i].resource + 1) % islip.num_resources
           ELSE islip.in_requests[c].pointer = islip_log.before.in[c]
      /\ \A r \in Resources :
           IF \E i \in 1..Len(gr) : gr[i].resource = r /\ gr[i].iter = 0
           THEN \A i \in 1..Len(gr) :
                   gr[i].resource = r =>
                     islip.out_requests[r].pointer
                        = (gr[i].client + 1) % islip.num_clients
           ELSE islip.out_requests[r].pointer = islip_log.before.out[r]

(***************************************************************************)
(*              Network of Basic routers with credit links                 *)
(*                                                                         *)
(* The routers are configured without output buffers (output_buffer_size   *)
(* = 0), with the Token output arbiter, SimpleVirtualChannels between      *)
(* routers, TransmissionFromOblivious from the servers and                 *)
(* TransmissionToServer towards them.  Statistics are not modelled.        *)
(* Times are kept relative to the current cycle.                           *)
(***************************************************************************)

\* Routers of the ring (a one dimensional torus), one server on each.
NumRouters == 4
\* virtual_channels, buffer_size and flit_size of the router configuration.
NumVC == 2
BufferSize == 4
FlitSize == 3
\* maximum_packet_size of the simulation.
MaximumPacketSize == 2
\* Packets created in a run.
MaxPackets == 2
\* Delay of every link, in cycles.
LinkDelay == 1
\* The traffic: the servers that create packets and their destinations.
TrafficSources == {0, 1}
TrafficDestinations == {2}

RouterIndices == 0..(NumRouters - 1)
VCs == 0..(NumVC - 1)
\* Ports 0 and 1 are the two directions of the ring, port 2 is the server's.
ServerPort == 2
RingPorts == {0, 1}
Ports == 0..ServerPort

\* Topology::neighbour
Neighbour(r, port) ==
    IF port = 0
    THEN [kind |-> "RouterPort", index |-> (r + 1) % NumRouters, port |-> 1]
    ELSE IF port = 1
    THEN [kind |-> "RouterPort", index |-> (r + NumRouters - 1) % NumRouters, port |-> 0]
    ELSE [kind |-> "ServerPort", index |-> r, port |-> 0]

\* Topology::server_neighbour
ServerNeighbour(s) == [kind |-> "RouterPort", index |-> s, port |-> ServerPort]

\* Topology::is_direction_change of a cartesian topology: the ports belong
\* to different dimensions (the server ports count as one more dimension).
IsDirectionChange(r, in_port, out_port) == (in_port \div 2) # (out_port \div 2)

\* Routing::next of the dimension-ordered routing: every virtual channel
\* of the port of the shorter way around the ring (of port 0 if both ways
\* are as long), or of the server port at the target router.
RoutingNext(current, target_router) ==
    IF current = target_router
    THEN {[port |-> ServerPort, virtual_channel |-> v, label |-> 0] : v \in VCs}
    ELSE {[port |-> IF 2 * ((target_router - current + NumRouters) % NumRouters)
                         <= NumRouters THEN 0 ELSE 1,
           virtual_channel |-> v, label |-> 0] : v \in VCs}

\* A phit: its packet, its index inside it and its current virtual channel.
NoPhit == [packet |-> 0, index |-> 0, virtual_channel |-> None]
IsBegin(phit) == phit.index = 0
IsEnd(phit) == phit.index = packets[phit.packet].size - 1

\* AcknowledgeMessage
AckPhitClearFromVirtualChannel(vc) == [virtual_channel |-> vc, set_available_size |-> None]
AckFixAvailableSize(n) == [virtual_channel |-> None, set_available_size |-> n]
NoMessage == [virtual_channel |-> None, set_available_size |-> None]

\* The entries of selected_input and selected_output.
NoSelection == [packet |-> 0, port |-> None, vc |-> None]
Selection(packet, port, vc) == [packet |-> packet, port |-> port, vc |-> vc]

\* Events and their generation.
EventPhitToLocation(delay, phit, location) ==
    [at |-> delay, position |-> "Begin", kind |-> "PhitToLocation",
     location |-> location, phit |-> phit, message |-> NoMessage]
EventAcknowledge(delay, location, message) ==
    [at |-> delay, position |-> "Begin", kind |-> "Acknowledge",
     location |-> location, phit |-> NoPhit, message |-> message]
EventGeneric(delay, r) ==
    [at |-> delay, position |-> "End", kind |-> "Generic",
     location |-> [kind |-> "Router", index |-> r, port |-> 0],
     phit |-> NoPhit, message |-> NoMessage]

\* Basic::new
BasicNew(bubble, allow_request_busy_port, intransit_priority) ==
    [reception_port_space |-> [p \in Ports |-> [v \in VCs |-> <<>>]],
     currently_selected |-> 0,
     neighbour_credits |-> [p \in RingPorts |-> [v \in VCs |-> BufferSize]],
     selected_input |-> [p \in Ports |-> [v \in VCs |-> NoSelection]],
     selected_output |-> [p \in Ports |-> [v \in VCs |-> NoSelection]],
     port_token |-> [p \in Ports |-> 0],
     next_events |-> <<>>,
     last_process_at_cycle |-> None,
     bubble |-> bubble,
     allow_request_busy_port |-> allow_request_busy_port,
     intransit_priority |-> intransit_priority,
     neglect_busy_output |-> FALSE,
     output_prioritize_lowest_label |-> FALSE,
     panicked |-> FALSE]

\* TransmissionFromOblivious::new_status_at_emissor, with the server's
\* progress in the packet it is sending (0: none).
ServerNew ==
    [available_size |-> BufferSize, size_to_send |-> FlitSize,
     sending |-> 0, next_index |-> 0, consumed |-> 0]

\* A variant of schedule that also emits an event when the target is the
\* soonest pending wake-up.
ScheduleAlsoWhenEqual(R, r, delay) ==
    IF R.next_events = <<>> \/ delay <= R.next_events[Len(R.next_events)]
    THEN [R |-> [R EXCEPT !.next_events = Append(@, delay)],
          events |-> SetToBag({EventGeneric(delay, r)})]
    ELSE [R |-> R, events |-> EmptyBag]

\* A variant of schedule that pushes the target and returns its event
\* whatever is pending.
ScheduleAlways(R, r, delay) ==
    [R |-> [R EXCEPT !.next_events = Append(@, delay)],
     events |-> SetToBag({EventGeneric(delay, r)})]

\* A variant of schedule that wakes the router one cycle later than asked.
ScheduleOneCycleLater(R, r, delay) ==
    IF R.next_events = <<>> \/ delay + 1 < R.next_events[Len(R.next_events)]
    THEN [R |-> [R EXCEPT !.next_events = Append(@, delay + 1)],
          events |-> SetToBag({EventGeneric(delay + 1, r)})]
    ELSE [R |-> R, events |-> EmptyBag]

\* Basic::schedule; times are relative to the current cycle.  The result is
\* the router, and the events generated.
Schedule(R, r, delay) ==
    IF R.next_events = <<>> \/ delay < R.next_events[Len(R.next_events)]
    THEN [R |-> [R EXCEPT !.next_events = Append(@, delay)],
          events |-> SetToBag({EventGeneric(delay, r)})]
    ELSE [R |-> R, events |-> EmptyBag]

\* SpaceAtReceptor::front_virtual_channel
FrontVirtualChannel(R, port, vc) ==
    IF R.reception_port_space[port][vc] = <<>> THEN NoPhit
    ELSE Head(R.reception_port_space[port][vc])

\* A test that asks a head phit for a single credit.
CanTransmitOneCredit(R, phit, port, vc) ==
    IF port \in RingPorts THEN R.neighbour_credits[port][vc] >= 1 ELSE TRUE

\* CreditCounterVector::can_transmit, EmptyStatus::can_transmit
CanTransmit(R, phit, port, vc) ==
    IF port \in RingPorts
    THEN R.neighbour_credits[port][vc] >= (IF IsBegin(phit) THEN FlitSize ELSE 1)
    ELSE TRUE

\* StatusAtEmissor::known_available_space_for_virtual_channel
KnownAvailableSpaceForVirtualChannel(R, port, vc) ==
    IF port \in RingPorts THEN R.neighbour_credits[port][vc] ELSE 1000

\* An advance that never asks for the bubble.
CanPhitAdvanceNoBubble(R, phit, exit_port, exit_vc, bubble_in_use) ==
    CanTransmit(R, phit, exit_port, exit_vc)

\* Basic::can_phit_advance, without output buffers
CanPhitAdvance(R, phit, exit_port, exit_vc, bubble_in_use) ==
    IF bubble_in_use
    THEN /\ CanTransmit(R, phit, exit_port, exit_vc)
         /\ KnownAvailableSpaceForVirtualChannel(R, exit_port, exit_vc)
              >= packets[phit.packet].size + MaximumPacketSize
    ELSE CanTransmit(R, phit, exit_port, exit_vc)

\* The bubble_in_use of a phit going from entry_port to exit_port.
BubbleInUse(R, r, phit, entry_port, exit_port) ==
    R.bubble /\ IsBegin(phit) /\ IsDirectionChange(r, entry_port, exit_port)

\* The router a packet is going to.
TargetRouter(phit) == ServerNeighbour(packets[phit.packet].destination).index

\* busy_ports of Basic::process: the output ports with some assigned input
\* whose front phit can advance.
BusyPort(R, port) ==
    \E vc \in VCs :
        LET sel == R.selected_input[port][vc] IN
        /\ sel # NoSelection
        /\ FrontVirtualChannel(R, sel.port, sel.vc) # NoPhit
        /\ CanPhitAdvance(R, FrontVirtualChannel(R, sel.port, sel.vc), port, vc, FALSE)

\* The input virtual channels with a phit at their front (front_iter).
FrontEntries(R) ==
    {e \in Ports \X VCs : R.reception_port_space[e[1]][e[2]] # <<>>}

\* Those without a selected output: the undecided_channels.
UndecidedEntries(R) ==
    {e \in FrontEntries(R) : R.selected_output[e[1]][e[2]] = NoSelection}

\* The candidates of an undecided entry that reach the policies with
\* router_allows = Some(true), as requests.
AllowedRequests(R, r, e) ==
    LET phit == FrontVirtualChannel(R, e[1], e[2]) IN
    {[packet |-> phit.packet, entry_port |-> e[1], entry_vc |-> e[2],
      requested_port |-> c.port, requested_vc |-> c.virtual_channel,
      label |-> c.label] :
        c \in {d \in RoutingNext(r, TargetRouter(phit)) :
                 /\ R.selected_input[d.port][d.virtual_channel] = NoSelection
                 /\ CanPhitAdvance(R, phit, d.port, d.virtual_channel,
                                   BubbleInUse(R, r, phit, e[1], d.port))
                 /\ (R.allow_request_busy_port \/ ~BusyPort(R, d.port))}}

\* The request vectors the routing phase can build: the policies keep any
\* part of the candidates and their last stage, EnforceFlowControl, drops
\* the ones the router does not allow.
RequestChoices(R, r) ==
    SUBSET (UNION {AllowedRequests(R, r, e) : e \in UndecidedEntries(R)})

\* Whether a request comes from another router (transit) or from a server.
IsTransit(r, req) == Neighbour(r, req.entry_port).kind = "RouterPort"

\* A variant of the split that puts the requests of the servers first.
TransitSplitInjectionFirst(R, r, rx) ==
    IF R.intransit_priority
    THEN <<{q \in rx : ~IsTransit(r, q)}, {q \in rx : IsTransit(r, q)}>>
    ELSE <<rx>>

\* The split of one subsequence of requests by intransit_priority.
TransitSplit(R, r, rx) ==
    IF R.intransit_priority
    THEN <<{q \in rx : IsTransit(r, q)}, {q \in rx : ~IsTransit(r, q)}>>
    ELSE <<rx>>

\* request_sequence: the requests by label, lowest first.
RECURSIVE LabelSequence(_, _, _, _, _)
LabelSequence(R, r, request, label, max_label) ==
    IF label > max_label THEN <<>>
    ELSE TransitSplit(R, r, {q \in request : q.label = label})
           \o LabelSequence(R, r, request, label + 1, max_label)

\* The groups of requests in order of priority; each group is shuffled.
RequestSequence(R, r, request) ==
    IF request = {} THEN <<>>
    ELSE IF R.output_prioritize_lowest_label
    THEN LET labels == {q.label : q \in request}
             min_label == CHOOSE l \in labels : \A m \in labels : l <= m
             max_label == CHOOSE l \in labels : \A m \in labels : l >= m
         IN LabelSequence(R, r, request, min_label, max_label)
    ELSE TransitSplit(R, r, request)

\* A variant of the test of the arbitration that only looks at the output.
CommitsIfOutputFree(R, q) ==
    R.selected_input[q.requested_port][q.requested_vc] = NoSelection

\* A request commits iff both of its entries are empty.
Commits(R, q) ==
    /\ R.selected_input[q.requested_port][q.requested_vc] = NoSelection
    /\ R.selected_output[q.entry_port][q.entry_vc] = NoSelection

Commit(R, q) ==
    [R EXCEPT
       !.selected_input[q.requested_port][q.requested_vc] =
           Selection(q.packet, q.entry_port, q.entry_vc),
       !.selected_output[q.entry_port][q.entry_vc] =
           Selection(q.packet, q.requested_port, q.requested_vc)]

\* The routers the arbitration can leave: the requests of each group are
\* served in any order (the shuffle); a request that does not commit when
\* it is served would not commit later either.
RECURSIVE ArbitrationOutcomes(_, _)
ArbitrationOutcomes(R, sequence) ==
    IF sequence = <<>> THEN {R}
    ELSE LET committable == {q \in Head(sequence) : Commits(R, q)} IN
         IF committable = {} THEN ArbitrationOutcomes(R, Tail(sequence))
         ELSE UNION {ArbitrationOutcomes(Commit(R, q),
                         <<Head(sequence) \ {q}>> \o Tail(sequence)) :
                     q \in committable}

\* SpaceAtReceptor::extract: the acknowledge message of a phit leaving the
\* buffer vc of a port whose space is `space` after the extraction.
ExtractMessage(space, port, vc) ==
    IF port \in RingPorts THEN AckPhitClearFromVirtualChannel(vc)
    ELSE LET sizes == {BufferSize - Len(space[v]) : v \in VCs}
             available_size == CHOOSE a \in sizes : \A b \in sizes : a >= b
         IN AckFixAvailableSize(IF available_size >= 1
                                THEN Max(available_size - 2, 0) ELSE 0)

\* A notification that forgets to take the credit.
NotifyWithoutCredit(R, port, vc) == R

\* StatusAtEmissor::notify_outcoming_phit
NotifyOutcomingPhit(R, port, vc) ==
    IF port \in RingPorts
    THEN [R EXCEPT !.neighbour_credits[port][vc] = @ - 1]
    ELSE R

\* The token arbiter: the candidate closest to the token, going upwards.
TokenDistance(R, exit_port, vc) == (vc - R.port_token[exit_port] + NumVC) % NumVC

\* A variant of the token arbiter that takes the candidate farthest from
\* the token.
TokenBestFarthest(R, exit_port, cand) ==
    CHOOSE vc \in cand :
        \A w \in cand : TokenDistance(R, exit_port, vc) >= TokenDistance(R, exit_port, w)

TokenBest(R, exit_port, cand) ==
    CHOOSE vc \in cand :
        \A w \in cand : TokenDistance(R, exit_port, vc) <= TokenDistance(R, exit_port, w)

\* The rescue of the head phits that did not move: their selected_input
\* is cleared.
Rescue(R, exit_port, undo_selected_input, selected_virtual_channel) ==
    [R EXCEPT !.selected_input[exit_port] =
        [vc \in VCs |->
            IF vc \in undo_selected_input /\ vc # selected_virtual_channel
            THEN NoSelection ELSE @[vc]]]

\* The virtual channels of an output port whose assigned input has a phit.
WithPhit(R, exit_port) ==
    {vc \in VCs :
        /\ R.selected_input[exit_port][vc] # NoSelection
        /\ FrontVirtualChannel(R, R.selected_input[exit_port][vc].port,
                               R.selected_input[exit_port][vc].vc) # NoPhit}

SelectedFront(R, exit_port, vc) ==
    FrontVirtualChannel(R, R.selected_input[exit_port][vc].port,
                        R.selected_input[exit_port][vc].vc)

\* Those whose phit can advance.
Advancing(R, r, exit_port) ==
    {vc \in WithPhit(R, exit_port) :
        CanPhitAdvance(R, SelectedFront(R, exit_port, vc), exit_port, vc,
            BubbleInUse(R, r, SelectedFront(R, exit_port, vc),
                        R.selected_input[exit_port][vc].port, exit_port))}

\* A variant of cand in which the heads go before the phits in transit.
CandHeadsFirst(R, r, exit_port) ==
    LET heads ==
            {vc \in Advancing(R, r, exit_port) :
                IsBegin(SelectedFront(R, exit_port, vc))}
    IN IF heads # {} THEN heads ELSE Advancing(R, r, exit_port)

\* cand: the virtual channels that can advance; body phits before heads.
Cand(R, r, exit_port) ==
    LET cand_in_transit ==
            {vc \in Advancing(R, r, exit_port) :
                ~IsBegin(SelectedFront(R, exit_port, vc))}
    IN IF cand_in_transit # {} THEN cand_in_transit ELSE Advancing(R, r, exit_port)

\* A variant in which the tail releases the output of its input virtual
\* channel and leaves the output virtual channel with its owner.
AfterMoveKeepsOwner(R, phit, sel, exit_port, vc) ==
    IF IsEnd(phit)
    THEN [R EXCEPT !.selected_output[sel.port][sel.vc] = NoSelection]
    ELSE [R EXCEPT !.selected_output[sel.port][sel.vc] =
                       Selection(sel.packet, exit_port, vc)]

\* A variant in which every phit that moves frees the output virtual
\* channel, the input keeping its output until the tail.
AfterMoveFreesOutput(R, phit, sel, exit_port, vc) ==
    IF IsEnd(phit)
    THEN [R EXCEPT !.selected_input[exit_port][vc] = NoSelection,
                   !.selected_output[sel.port][sel.vc] = NoSelection]
    ELSE [R EXCEPT !.selected_input[exit_port][vc] = NoSelection,
                   !.selected_output[sel.port][sel.vc] =
                       Selection(sel.packet, exit_port, vc)]

\* Selections released by every phit that moves.
AfterMoveRelease(R, phit, sel, exit_port, vc) ==
    [R EXCEPT !.selected_input[exit_port][vc] = NoSelection,
              !.selected_output[sel.port][sel.vc] = NoSelection]

\* The selections after a phit moves: released by the tail, and otherwise
\* the input keeps its output.
AfterMove(R, phit, sel, exit_port, vc) ==
    IF IsEnd(phit)
    THEN [R EXCEPT !.selected_input[exit_port][vc] = NoSelection,
                   !.selected_output[sel.port][sel.vc] = NoSelection]
    ELSE [R EXCEPT !.selected_output[sel.port][sel.vc] =
                       Selection(sel.packet, exit_port, vc)]

\* History of a transmission: what left, by where, and the credits the
\* emitter status had just before.  The exits of a packet are forgotten when its
\* tail leaves by the same place as the rest.
LogTransmission(log, r, R, phit, entry_port, exit_port, vc) ==
    LET exit == <<phit.packet, r, exit_port, vc>>
        exits == log.exits \cup {exit}
        same == {x \in exits : x[1] = phit.packet /\ x[2] = r}
    IN [log EXCEPT
          !.tx = @ \cup
                 {[router |-> r, port |-> exit_port, vc |-> vc, phit |-> phit,
                   entry_port |-> entry_port,
                   credits |-> KnownAvailableSpaceForVirtualChannel(R, exit_port, vc)]},
          !.exits = IF IsEnd(phit) /\ same = {exit} THEN exits \ same ELSE exits]

\* One round of the loop over the output ports of Basic::process.
\* st is the router, the events generated, moved_phits and the history.
OutputPort(st, r, exit_port) ==
    LET R == st.R
        undo_selected_input ==
            {vc \in WithPhit(R, exit_port) : IsBegin(SelectedFront(R, exit_port, vc))}
        cand == Cand(R, r, exit_port)
    IN IF cand = {}
       THEN [st EXCEPT !.R = Rescue(R, exit_port, undo_selected_input, None)]
       ELSE
         LET best == TokenBest(R, exit_port, cand)
             sel == R.selected_input[exit_port][best]
             phit == SelectedFront(R, exit_port, best)
             space == [R.reception_port_space[sel.port] EXCEPT ![sel.vc] = Tail(@)]
             moved ==
                 [AfterMove(R, phit, sel, exit_port, best) EXCEPT
                    !.reception_port_space[sel.port] = space,
                    !.port_token[exit_port] =
                        IF IsEnd(phit) THEN (best + 1) % NumVC ELSE best]
         IN [R |-> Rescue(NotifyOutcomingPhit(moved, exit_port, best),
                          exit_port, undo_selected_input, best),
             events |-> st.events
                 (+) SetToBag({EventAcknowledge(LinkDelay, Neighbour(r, sel.port),
                                    ExtractMessage(space, sel.port, sel.vc))})
                 (+) SetToBag({EventPhitToLocation(LinkDelay,
                                    [phit EXCEPT !.virtual_channel = best],
                                    Neighbour(r, exit_port))}),
             moved_phits |-> st.moved_phits + 1,
             log |-> LogTransmission(st.log, r, R, phit, sel.port, exit_port, best)]

RECURSIVE OutputPhase(_, _, _)
OutputPhase(st, r, exit_port) ==
    IF exit_port > ServerPort THEN st
    ELSE CHOOSE res \in {OutputPhase(s2, r, exit_port + 1) :
                            s2 \in {OutputPort(st, r, exit_port)}} : TRUE

\* A variant of the end of process that does not count the undecided
\* channels as pending work.
RescheduleWithoutUndecided(st, r, undecided_channels, request_len) ==
    LET R == [st.R EXCEPT !.next_events =
                 IF @ = <<>> THEN @ ELSE SubSeq(@, 1, Len(@) - 1)]
    IN IF st.moved_phits > 0 \/ st.events # EmptyBag \/ request_len > 0
       THEN [R |-> Schedule(R, r, 1).R,
             events |-> st.events (+) Schedule(R, r, 1).events,
             log |-> st.log]
       ELSE [R |-> R, events |-> st.events, log |-> st.log]

\* The end of Basic::process: the served event is removed and the router
\* schedules itself for the next cycle if it has pending work.
Reschedule(st, r, undecided_channels, request_len) ==
    LET R == [st.R EXCEPT !.next_events =
                 IF @ = <<>> THEN @ ELSE SubSeq(@, 1, Len(@) - 1)]
    IN IF undecided_channels > 0 \/ st.moved_phits > 0
          \/ st.events # EmptyBag \/ request_len > 0
       THEN [R |-> Schedule(R, r, 1).R,
             events |-> st.events (+) Schedule(R, r, 1).events,
             log |-> st.log]
       ELSE [R |-> R, events |-> st.events, log |-> st.log]

\* Basic::process: the results it can have, one for each outcome of the
\* policies and of the shuffles.
ProcessOutcomes(R0, r, log) ==
    IF R0.last_process_at_cycle = 0
    THEN {[R |-> [R0 EXCEPT !.panicked = TRUE], events |-> EmptyBag, log |-> log]}
    ELSE
      LET R == [R0 EXCEPT !.last_process_at_cycle = 0]
          undecided_channels == Cardinality(UndecidedEntries(R))
      IN UNION {
           {Reschedule(
               OutputPhase([R |-> arbitrated, events |-> EmptyBag,
                            moved_phits |-> 0, log |-> log], r, 0),
               r, undecided_channels, Cardinality(request)) :
              arbitrated \in ArbitrationOutcomes(R, RequestSequence(R, r, request))} :
           request \in RequestChoices(R, r)}

(***************************************************************************)
(* The simulation: the event queue, the servers and the cycles.            *)
(***************************************************************************)

\* The events of the queue for the current cycle and the given position.
NowAt(position) ==
    {ev \in BagToSet(queue) : ev.at = 0 /\ ev.position = position}

NoEvent == [at |-> None, position |-> "", kind |-> "",
            location |-> [kind |-> "", index |-> 0, port |-> 0],
            phit |-> NoPhit, message |-> NoMessage]

Served(q, ev) == q (-) SetToBag({ev})

NobodyPanicked == \A r \in RouterIndices : ~routers[r].panicked

\* The event served next: the Begin events of the cycle go before its End
\* events.  The handlers of the events of a cycle and position act on
\* separate parts of the state, so that they are served in a fixed order.
NextEvent ==
    IF NowAt("Begin") # {} THEN CHOOSE ev \in NowAt("Begin") : TRUE
    ELSE IF NowAt("End") # {} THEN CHOOSE ev \in NowAt("End") : TRUE
    ELSE NoEvent

\* A variant of the insertion in which every phit, and not only the head,
\* goes to any buffer with room for the packet.
InsertChoicesAnyPhit(R, port, phit) ==
    IF port \in RingPorts THEN {phit.virtual_channel}
    ELSE {v \in VCs : BufferSize - Len(R.reception_port_space[port][v])
                        >= packets[phit.packet].size}

\* SpaceAtReceptor::insert: the buffers the phit can get into.
InsertChoices(R, port, phit) ==
    IF port \in RingPorts THEN {phit.virtual_channel}
    ELSE IF IsBegin(phit)
    THEN {v \in VCs : BufferSize - Len(R.reception_port_space[port][v])
                        >= packets[phit.packet].size}
    ELSE {R.currently_selected}

\* Basic::insert
Insert(r, port) ==
    /\ NobodyPanicked
    /\ NextEvent # NoEvent
    /\ LET ev == NextEvent IN
       /\ ev.kind = "PhitToLocation"
       /\ ev.location = [kind |-> "RouterPort", index |-> r, port |-> port]
       /\ IF InsertChoices(routers[r], port, ev.phit) = {}
          THEN /\ routers' = [routers EXCEPT ![r].panicked = TRUE]
               /\ queue' = Served(queue, NextEvent)
          ELSE \E vc \in InsertChoices(routers[r], port, ev.phit) :
                 \E res \in {Schedule(
                     [routers[r] EXCEPT
                        !.reception_port_space[port][vc] =
                            Append(@, [ev.phit EXCEPT !.virtual_channel = vc]),
                        !.currently_selected =
                            IF port = ServerPort THEN vc ELSE @], r, 0)} :
                   /\ routers' = [routers EXCEPT ![r] = res.R]
                   /\ queue' = Served(queue, NextEvent) (+) res.events
    /\ UNCHANGED <<servers, packets, phase, net_log>>

\* Basic::acknowledge, with CreditCounterVector::acknowledge
Acknowledge(r, port) ==
    /\ NobodyPanicked
    /\ NextEvent # NoEvent
    /\ LET ev == NextEvent IN
       /\ ev.kind = "Acknowledge"
       /\ ev.location = [kind |-> "RouterPort", index |-> r, port |-> port]
       /\ \E res \in {Schedule(
              [routers[r] EXCEPT
                 !.neighbour_credits[port][ev.message.virtual_channel] = @ + 1],
              r, 0)} :
            /\ routers' = [routers EXCEPT ![r] = res.R]
            /\ queue' = Served(queue, NextEvent) (+) res.events
    /\ UNCHANGED <<servers, packets, phase, net_log>>

\* Basic::process, served from its Generic event
Process(r) ==
    /\ NobodyPanicked
    /\ NextEvent # NoEvent
    /\ NextEvent.kind = "Generic"
    /\ NextEvent.location.index = r
    /\ \E res \in ProcessOutcomes(routers[r], r, [net_log EXCEPT !.tx = {}]) :
         /\ routers' = [routers EXCEPT ![r] = res.R]
         /\ queue' = Served(queue, NextEvent) (+) res.events
         /\ net_log' = res.log
    /\ UNCHANGED <<servers, packets, phase>>

\* A server consumes the phit that reaches it.
ServerConsume(s) ==
    /\ NobodyPanicked
    /\ NextEvent # NoEvent
    /\ NextEvent.kind = "PhitToLocation"
    /\ NextEvent.location = [kind |-> "ServerPort", index |-> s, port |-> 0]
    /\ servers' = [servers EXCEPT ![s].consumed = @ + 1]
    /\ queue' = Served(queue, NextEvent)
    /\ UNCHANGED <<routers, packets, phase, net_log>>

\* A variant of the acknowledge of the server that takes the value as it comes.
StatusAtServerAcknowledgeAssign(S, message) ==
    [S EXCEPT !.available_size = message.set_available_size]

\* StatusAtServer::acknowledge: the known space never goes down.
StatusAtServerAcknowledge(S, message) ==
    [S EXCEPT !.available_size = Max(@, message.set_available_size)]

\* The acknowledgement reaches the server.
ServerAcknowledge(s) ==
    /\ NobodyPanicked
    /\ NextEvent # NoEvent
    /\ NextEvent.kind = "Acknowledge"
    /\ NextEvent.location = [kind |-> "ServerPort", index |-> s, port |-> 0]
    /\ servers' = [servers EXCEPT
                      ![s] = StatusAtServerAcknowledge(@, NextEvent.message)]
    /\ queue' = Served(queue, NextEvent)
    /\ UNCHANGED <<routers, packets, phase, net_log>>

\* StatusAtServer::can_transmit
ServerCanTransmit(S, index) ==
    IF index = 0 THEN S.available_size >= S.size_to_send ELSE TRUE

\* The server sends the phit `index` of the packet (StatusAtServer::
\* notify_outcoming_phit) towards its router.
ServerSend(S, s, packet, index, last) ==
    [S |-> [S EXCEPT !.available_size = @ - 1,
                     !.sending = IF last THEN 0 ELSE packet,
                     !.next_index = IF last THEN 0 ELSE index + 1],
     events |-> SetToBag({EventPhitToLocation(LinkDelay,
                     [packet |-> packet, index |-> index, virtual_channel |-> None],
                     ServerNeighbour(s))})]

\* The turn of a server, once the events of the cycle are served: it goes
\* on with its packet or it creates a packet and sends its head.
ServerContinue(s) ==
    /\ servers[s].sending # 0
    /\ \E res \in {ServerSend(servers[s], s, servers[s].sending,
                             servers[s].next_index,
                             servers[s].next_index
                               = packets[servers[s].sending].size - 1)} :
         /\ servers' = [servers EXCEPT ![s] = res.S]
         /\ queue' = queue (+) res.events
    /\ UNCHANGED packets

ServerCreate(s, destination, size) ==
    /\ servers[s].sending = 0
    /\ Len(packets) < MaxPackets
    /\ destination # s
    /\ ServerCanTransmit(servers[s], 0)
    /\ packets' = Append(packets, [source |-> s, destination |-> destination,
                                   size |-> size])
    /\ \E res \in {ServerSend(servers[s], s, Len(packets) + 1, 0, size = 1)} :
         /\ servers' = [servers EXCEPT ![s] = res.S]
         /\ queue' = queue (+) res.events

ServerStep(s) ==
    /\ NobodyPanicked
    /\ NextEvent = NoEvent
    /\ s \notin phase
    /\ \/ ServerContinue(s)
       \/ \E destination \in TrafficDestinations, size \in 1..MaximumPacketSize :
             s \in TrafficSources /\ ServerCreate(s, destination, size)
    /\ phase' = phase \cup {s}
    /\ UNCHANGED <<routers, net_log>>

\* The queue one cycle later.
Later(q) ==
    LET moved(ev) == [ev EXCEPT !.at = @ - 1] IN
    [ev \in {moved(e) : e \in BagToSet(q)} |->
        CopiesIn(CHOOSE e \in BagToSet(q) : moved(e) = ev, q)]

\* The cycle ends: the times relative to it move by one.
AdvanceCycle ==
    /\ NobodyPanicked
    /\ NextEvent = NoEvent
    /\ \A s \in RouterIndices : servers[s].sending # 0 => s \in phase
    /\ phase' = {}
    /\ queue' = Later(queue)
    /\ routers' = [r \in RouterIndices |->
          [routers[r] EXCEPT
             !.next_events = [i \in 1..Len(@) |-> @[i] - 1],
             !.last_process_at_cycle = IF @ = None THEN None ELSE 1]]
    /\ net_log' = [net_log EXCEPT !.tx = {}]
    /\ UNCHANGED <<servers, packets>>

IdleISLIP ==
    /\ islip = ISLIPAllocatorNew(1, 1, 1)
    /\ gr = <<>>
    /\ islip_log = [calls |-> 0, requested |-> {},
                    before |-> PointersOf(ISLIPAllocatorNew(1, 1, 1)),
                    panicked |-> FALSE]
    /\ fixed = {}

InitNetwork ==
    /\ IdleISLIP
    /\ \E bubble \in {TRUE}, allow_request_busy_port \in {FALSE},
          intransit_priority \in {FALSE} :
         routers = [r \in RouterIndices |->
                       BasicNew(bubble, allow_request_busy_port, intransit_priority)]
    /\ servers = [s \in RouterIndices |-> ServerNew]
    /\ packets = <<>>
    /\ queue = EmptyBag
    /\ phase = {}
    /\ net_log = [tx |-> {}, exits |-> {}]
    /\ updown = NoRouting

NextNetwork ==
    \/ \E r \in RouterIndices, port \in Ports : Insert(r, port) /\ UNCHANGED <<islip_vars, updown>>
    \/ \E r \in RouterIndices, port \in RingPorts :
           Acknowledge(r, port) /\ UNCHANGED <<islip_vars, updown>>
    \/ \E r \in RouterIndices : Process(r) /\ UNCHANGED <<islip_vars, updown>>
    \/ \E s \in RouterIndices : ServerConsume(s) /\ UNCHANGED <<islip_vars, updown>>
    \/ \E s \in RouterIndices : ServerAcknowledge(s) /\ UNCHANGED <<islip_vars, updown>>
    \/ \E s \in RouterIndices : ServerStep(s) /\ UNCHANGED <<islip_vars, updown>>
    \/ AdvanceCycle /\ UNCHANGED <<islip_vars, updown>>

SpecNetwork == InitNetwork /\ [][NextNetwork]_vars


(***************************************************************************)
(* Properties of the network.                                              *)
(***************************************************************************)

\* The events of the queue of a kind for a place, as a number.
InFlight(kind, location, vc) ==
    BagCardinality([ev \in {e \in BagToSet(queue) :
                                /\ e.kind = kind
                                /\ e.location = location
                                /\ (IF kind = "PhitToLocation"
                                    THEN e.phit.virtual_channel
                                    ELSE e.message.virtual_channel) = vc}
                     |-> CopiesIn(ev, queue)])

Links == RouterIndices \X RingPorts \X VCs

\* The parts of the credit loop of the virtual channel l[3] of the link
\* that leaves the router l[1] by its port l[2].
Credits(l) == routers[l[1]].neighbour_credits[l[2]][l[3]]
PhitsInFlight(l) == InFlight("PhitToLocation", Neighbour(l[1], l[2]), l[3])
PhitsInBuffer(l) ==
    Len(routers[Neighbour(l[1], l[2]).index]
          .reception_port_space[Neighbour(l[1], l[2]).port][l[3]])
AcksInFlight(l) ==
    InFlight("Acknowledge", [kind |-> "RouterPort", index |-> l[1], port |-> l[2]], l[3])

\* C1: on every router-to-router link and virtual channel, the credits of
\* the sender plus the phits in flight plus the phits in the receiver's
\* buffer plus the acknowledges in flight make buffer_size, and the
\* credits stay between 0 and buffer_size.
C1_CreditConservation ==
    \A l \in Links :
        /\ Credits(l) + PhitsInFlight(l) + PhitsInBuffer(l) + AcksInFlight(l)
             = BufferSize
        /\ 0 <= Credits(l) /\ Credits(l) <= BufferSize

C1_Witness ==
    \E l \in Links :
        /\ PhitsInFlight(l) >= 1 /\ PhitsInBuffer(l) >= 1 /\ AcksInFlight(l) >= 1
        /\ Credits(l) < BufferSize

\* C2: between the invocations of process, selected_input[p][v] is
\* (packet, q, w) iff selected_output[q][w] is (packet, p, v).
C2_SelectedInputIffOutput ==
    \A r \in RouterIndices, p \in Ports, v \in VCs, q \in Ports, w \in VCs,
       packet \in 1..MaxPackets :
        routers[r].selected_input[p][v] = Selection(packet, q, w)
          <=> routers[r].selected_output[q][w] = Selection(packet, p, v)

\* C3: all the phits of a packet leave a router by the same output port
\* and virtual channel.
C3_PacketContiguity ==
    \A packet \in 1..MaxPackets, r \in RouterIndices :
        Cardinality({x \in net_log.exits : x[1] = packet /\ x[2] = r}) <= 1

C3_Witness ==
    \E t \in net_log.tx :
        /\ t.phit.index > 0 /\ t.port \in RingPorts
        /\ <<t.phit.packet, t.router, t.port, t.vc>> \notin net_log.exits

\* C7: a phit is sent by a virtual channel of an output link only if the
\* credits of the sender are at least flit_size for a head phit and at
\* least 1 for any other.
C7_FlowControl ==
    \A t \in net_log.tx :
        t.port \in RingPorts =>
            t.credits >= (IF t.phit.index = 0 THEN FlitSize ELSE 1)

C7_Witness ==
    \E t \in net_log.tx :
        t.port \in RingPorts /\ t.phit.index = 0 /\ t.credits = FlitSize

\* Whether the hop of a logged phit is the one the bubble is for.
BubbleHop(t) ==
    /\ routers[t.router].bubble
    /\ t.phit.index = 0
    /\ IsDirectionChange(t.router, t.entry_port, t.port)

BubbleTest(t) == t.credits >= packets[t.phit.packet].size + MaximumPacketSize

\* The phit at the front of the input e of the router r can ask for the
\* virtual channel vc of the ring port: the hop is not one of the bubble,
\* the output is free and not busy, and the ordinary test passes.
OrdinaryHopAllowed(r, e, port, vc) ==
    LET phit == FrontVirtualChannel(routers[r], e[1], e[2]) IN
    /\ port \in {c.port : c \in RoutingNext(r, TargetRouter(phit))}
    /\ ~(routers[r].bubble /\ phit.index = 0 /\ IsDirectionChange(r, e[1], port))
    /\ routers[r].selected_input[port][vc] = NoSelection
    /\ ~BusyPort(routers[r], port)
    /\ routers[r].neighbour_credits[port][vc]
         >= (IF phit.index = 0 THEN FlitSize ELSE 1)

\* C8: with the bubble enabled, the head phit of a hop that changes of
\* direction is sent only with credits for its packet and a packet of the
\* maximum size; the other phits are held only by the ordinary test.
C8_Bubble ==
    /\ \A t \in net_log.tx : BubbleHop(t) => BubbleTest(t)
    /\ \A r \in RouterIndices, port \in RingPorts, vc \in VCs :
          \A e \in UndecidedEntries(routers[r]) :
              OrdinaryHopAllowed(r, e, port, vc) =>
                  \E q \in AllowedRequests(routers[r], r, e) :
                      q.requested_port = port /\ q.requested_vc = vc

C8_Witness ==
    \E t \in net_log.tx :
        /\ t.port \in RingPorts /\ BubbleHop(t)
        /\ t.credits = packets[t.phit.packet].size + MaximumPacketSize
        /\ t.credits < BufferSize

\* The phits inside the routers.
PhitsInside ==
    \E r \in RouterIndices, p \in Ports, v \in VCs :
        routers[r].reception_port_space[p][v] # <<>>

\* A state that only the passing of the cycles follows: nothing is
\* scheduled, no server has anything to send, and no packet can be created.
Quiescent ==
    /\ NobodyPanicked
    /\ queue = EmptyBag
    /\ \A s \in RouterIndices : servers[s].sending = 0
    /\ Len(packets) = MaxPackets

\* C9: with the bubble enabled the ring never reaches a state with packets
\* inside and no phit able to move ever again.
C9_NoDeadlock == ~(\A r \in RouterIndices : routers[r].bubble) \/ ~(Quiescent /\ PhitsInside)

(***************************************************************************)
(* ExplicitUpDown, the up/down routing with explicit distance tables.      *)
(* The topology is an input of the routing: a connected graph of router    *)
(* to router links, each router having also one port towards its server.   *)
(***************************************************************************)

\* The number of routers of the topology.
UpDownRouters == 4
UpDownIndices == 0..(UpDownRouters - 1)

\* The elements of a set of numbers in ascending order.
RECURSIVE Ascending(_)
Ascending(S) ==
    IF S = {} THEN <<>>
    ELSE LET m == CHOOSE x \in S : \A y \in S : x <= y
         IN <<m>> \o Ascending(S \ {m})

\* The possible links between two routers.
UpDownLinks == {e \in SUBSET UpDownIndices : Cardinality(e) = 2}

\* A topology gives for each router the routers at its ports, in port order.
TopologyOf(E) ==
    [r \in UpDownIndices |-> Ascending({n \in UpDownIndices : {r, n} \in E})]

RECURSIVE Reachable(_, _)
Reachable(topology, S) ==
    LET T == S \cup UNION {Range(topology[r]) : r \in S}
    IN IF T = S THEN S ELSE Reachable(topology, T)

Connected(topology) == Reachable(topology, {0}) = UpDownIndices

Topologies == {t \in {TopologyOf(E) : E \in SUBSET UpDownLinks} : Connected(t)}

\* Topology::ports: the ports towards routers and then the port of the server.
TopologyPorts(topology, router) == Len(topology[router]) + 1

LocationRouterPort(router_index) == [kind |-> "RouterPort", index |-> router_index]
LocationServerPort(server) == [kind |-> "ServerPort", index |-> server]

\* Topology::neighbour. Server s is attached to router s.
TopologyNeighbour(topology, router, port) ==
    IF port < Len(topology[router])
    THEN LocationRouterPort(topology[router][port + 1])
    ELSE LocationServerPort(router)

\* Topology::neighbour_router_iter: the neighbour routers in port order.
NeighbourRouterIter(topology, router) == topology[router]

\* ExplicitUpDown::new with the default labels.
ExplicitUpDownNew(root, branch_crossings_downwards, branch_crossings_upwards) ==
    [root |-> root,
     up_down_distances |-> <<>>,
     down_distances |-> <<>>,
     distance_to_root |-> <<>>,
     branch_crossings_downwards |-> branch_crossings_downwards,
     branch_crossings_upwards |-> branch_crossings_upwards,
     label_up |-> 0,
     label_down |-> 0,
     label_horizontal_vec |-> <<>>,
     label_horizontal_otherwise |-> 0]

\* initialize, the body of the BFS loop over the neighbours of a router: the
\* neighbours without distance get one and are pushed into downwards.
RECURSIVE VisitNeighbours(_, _, _, _)
VisitNeighbours(bfs, neighbours, i, alternate_distance) ==
    IF i > Len(neighbours) THEN bfs
    ELSE LET neighbour == neighbours[i]
             visited ==
                 IF bfs.distance_to_root[neighbour] = None
                 THEN [distance_to_root |->
                           [bfs.distance_to_root EXCEPT ![neighbour] = alternate_distance],
                       downwards |-> Append(bfs.downwards, neighbour)]
                 ELSE bfs
         IN CHOOSE res \in {VisitNeighbours(next, neighbours, i + 1, alternate_distance) :
                                next \in {visited}} : TRUE

\* initialize, the BFS from the root: while read_index < downwards.len().
RECURSIVE BreadthFirstSearch(_, _, _)
BreadthFirstSearch(topology, bfs, read_index) ==
    IF read_index > Len(bfs.downwards) THEN bfs
    ELSE LET current == bfs.downwards[read_index]
         IN CHOOSE res \in {BreadthFirstSearch(topology, next, read_index + 1) :
                next \in {VisitNeighbours(bfs, NeighbourRouterIter(topology, current),
                                          1, bfs.distance_to_root[current] + 1)}} : TRUE

\* initialize, the fill assuming that every path goes through the root,
\* followed by the zero distances from a router to itself.
SeedThroughRoot(root, distance_to_root) ==
    [up_down_distances |->
         [origin \in UpDownIndices |-> [target \in UpDownIndices |->
             IF origin = target THEN 0
             ELSE distance_to_root[origin] + distance_to_root[target]]],
     down_distances |->
         [origin \in UpDownIndices |-> [target \in UpDownIndices |->
             IF origin = target THEN 0
             ELSE IF origin = root THEN distance_to_root[target]
             ELSE None]]]

\* A variant of the update that improves the up/down distance from low to
\* high and leaves the one from high to low as it was.
RelaxThroughNeighbourOneWay(m, distance_to_root, low, high, neighbour) ==
    IF distance_to_root[neighbour] + 1 # distance_to_root[low] THEN m
    ELSE LET neighbour_up_down == m.up_down_distances[neighbour][high]
             origin_up_down == m.up_down_distances[low][high]
             neighbour_down == m.down_distances[high][neighbour]
             origin_down == m.down_distances[high][low]
         IN [up_down_distances |->
                 IF neighbour_up_down + 1 < origin_up_down
                 THEN [m.up_down_distances EXCEPT ![low][high] = neighbour_up_down + 1]
                 ELSE m.up_down_distances,
             down_distances |->
                 IF /\ neighbour_down # None
                    /\ (origin_down = None \/ neighbour_down + 1 < origin_down)
                 THEN [m.down_distances EXCEPT ![high][low] = neighbour_down + 1]
                 ELSE m.down_distances]

\* initialize, the body of the innermost loop of the update of the distances:
\* if the neighbour is upwards of low, the distances between low and high are
\* improved by the ones between the neighbour and high.
RelaxThroughNeighbour(m, distance_to_root, low, high, neighbour) ==
    IF distance_to_root[neighbour] + 1 # distance_to_root[low] THEN m
    ELSE LET neighbour_up_down == m.up_down_distances[neighbour][high]
             origin_up_down == m.up_down_distances[low][high]
             neighbour_down == m.down_distances[high][neighbour]
             origin_down == m.down_distances[high][low]
         IN [up_down_distances |->
                 IF neighbour_up_down + 1 < origin_up_down
                 THEN [m.up_down_distances EXCEPT
                          ![low][high] = neighbour_up_down + 1,
                          ![high][low] = neighbour_up_down + 1]
                 ELSE m.up_down_distances,
             down_distances |->
                 IF /\ neighbour_down # None
                    /\ (origin_down = None \/ neighbour_down + 1 < origin_down)
                 THEN [m.down_distances EXCEPT ![high][low] = neighbour_down + 1]
                 ELSE m.down_distances]

\* for neighbour in topology.neighbour_router_iter(low)
RECURSIVE RelaxNeighbours(_, _, _, _, _, _)
RelaxNeighbours(m, distance_to_root, neighbours, i, low, high) ==
    IF i > Len(neighbours) THEN m
    ELSE CHOOSE res \in
             {RelaxNeighbours(next, distance_to_root, neighbours, i + 1, low, high) :
                  next \in {RelaxThroughNeighbour(m, distance_to_root, low, high,
                                                  neighbours[i])}} : TRUE

\* for &high in downwards[0..low_index].iter()
RECURSIVE RelaxHigh(_, _, _, _, _, _)
RelaxHigh(m, distance_to_root, topology, downwards, low_index, high_index) ==
    IF high_index >= low_index THEN m
    ELSE CHOOSE res \in
             {RelaxHigh(next, distance_to_root, topology, downwards, low_index,
                        high_index + 1) :
                  next \in {RelaxNeighbours(m, distance_to_root,
                                NeighbourRouterIter(topology, downwards[low_index]), 1,
                                downwards[low_index], downwards[high_index])}} : TRUE

\* for (low_index,&low) in downwards.iter().enumerate()
RECURSIVE RelaxLow(_, _, _, _, _)
RelaxLow(m, distance_to_root, topology, downwards, low_index) ==
    IF low_index > Len(downwards) THEN m
    ELSE CHOOSE res \in
             {RelaxLow(next, distance_to_root, topology, downwards, low_index + 1) :
                  next \in {RelaxHigh(m, distance_to_root, topology, downwards,
                                      low_index, 1)}} : TRUE

\* ExplicitUpDown::initialize with a root.
Initialize(routing, topology) ==
    LET root == routing.root
        bfs == BreadthFirstSearch(topology,
                   [distance_to_root |->
                        [r \in UpDownIndices |-> IF r = root THEN 0 ELSE None],
                    downwards |-> <<root>>], 1)
        m == RelaxLow(SeedThroughRoot(root, bfs.distance_to_root),
                      bfs.distance_to_root, topology, bfs.downwards, 1)
    IN [routing EXCEPT
           !.up_down_distances = m.up_down_distances,
           !.down_distances = m.down_distances,
           !.distance_to_root = bfs.distance_to_root]

\* next, the label of a horizontal hop: label_horizontal_vec.get(delta) or
\* label_horizontal_otherwise.
LabelHorizontal(routing, delta) ==
    IF delta < Len(routing.label_horizontal_vec)
    THEN routing.label_horizontal_vec[delta + 1]
    ELSE routing.label_horizontal_otherwise

NotGood == [good |-> FALSE, label |-> 0, new_hops |-> 0]

\* A variant of the test in the down phase in which a neighbour that is as
\* far from the target as the current router is also good.
GoodDownwardsNotStrict(routing, current_router, router_index, target_router) ==
    LET down_distance == routing.down_distances[current_router][target_router]
        new_down == routing.down_distances[router_index][target_router]
    IN IF new_down # None /\ new_down <= down_distance
       THEN [good |-> TRUE, label |-> routing.label_down, new_hops |-> new_down]
       ELSE NotGood

\* next, when down_distances(current, target) is defined: the neighbour is
\* good if it reduces the down distance, or with branch_crossings_downwards if
\* it is at the depth of the current router and its up/down distance is lower
\* than the down distance.
GoodDownwards(routing, current_router, router_index, target_router) ==
    LET down_distance == routing.down_distances[current_router][target_router]
        new_down == routing.down_distances[router_index][target_router]
        new_up_down == routing.up_down_distances[router_index][target_router]
    IN IF new_down # None /\ new_down < down_distance
       THEN [good |-> TRUE, label |-> routing.label_down, new_hops |-> new_down]
       ELSE IF /\ routing.branch_crossings_downwards
               /\ routing.distance_to_root[router_index] =
                      routing.distance_to_root[current_router]
               /\ new_up_down # None
               /\ new_up_down < down_distance
       THEN [good |-> TRUE,
             label |-> LabelHorizontal(routing, down_distance - 1 - new_up_down),
             new_hops |-> new_up_down]
       ELSE [good |-> FALSE,
             label |-> IF new_down # None THEN routing.label_down ELSE 0,
             new_hops |-> IF new_down # None THEN new_down ELSE 0]

\* A variant of the test in the up phase that takes any neighbour that
\* reduces the up/down distance, upwards or not.
GoodUpwardsAnyDirection(routing, current_router, router_index, target_router) ==
    LET up_down_distance == routing.up_down_distances[current_router][target_router]
        new_up_down == routing.up_down_distances[router_index][target_router]
    IN IF new_up_down # None /\ new_up_down < up_down_distance
       THEN [good |-> TRUE, label |-> routing.label_up, new_hops |-> new_up_down]
       ELSE NotGood

\* next, when down_distances(current, target) is not defined: the neighbour
\* is good if it reduces the up/down distance and is upwards, or with
\* branch_crossings_upwards at the depth of the current router.
GoodUpwards(routing, current_router, router_index, target_router) ==
    LET up_down_distance == routing.up_down_distances[current_router][target_router]
        new_up_down == routing.up_down_distances[router_index][target_router]
    IN IF new_up_down # None /\ new_up_down < up_down_distance
       THEN IF routing.distance_to_root[router_index] <
                   routing.distance_to_root[current_router]
            THEN [good |-> TRUE, label |-> routing.label_up, new_hops |-> new_up_down]
            ELSE IF /\ routing.branch_crossings_upwards
                    /\ routing.distance_to_root[router_index] =
                           routing.distance_to_root[current_router]
            THEN [good |-> TRUE,
                  label |-> LabelHorizontal(routing,
                                up_down_distance - 1 - new_up_down),
                  new_hops |-> new_up_down]
            ELSE [good |-> FALSE, label |-> routing.label_up, new_hops |-> new_up_down]
       ELSE NotGood

\* CandidateEgress with its label and estimated_remaining_hops.
CandidateEgress(port, virtual_channel, label, estimated_remaining_hops) ==
    [port |-> port, virtual_channel |-> virtual_channel, label |-> label,
     estimated_remaining_hops |-> estimated_remaining_hops]

\* ExplicitUpDown::next: the candidates from current_router towards
\* target_router, for all the virtual channels.
ExplicitUpDownNext(routing, topology, current_router, target_router, target_server, num_virtual_channels) ==
    IF current_router = target_router
    THEN LET i == CHOOSE i \in 0..(TopologyPorts(topology, current_router) - 1) :
                      /\ TopologyNeighbour(topology, current_router, i) =
                             LocationServerPort(target_server)
                      /\ \A j \in 0..(i - 1) :
                             TopologyNeighbour(topology, current_router, j) #
                                 LocationServerPort(target_server)
         IN {CandidateEgress(i, vc, 0, None) : vc \in 0..(num_virtual_channels - 1)}
    ELSE UNION {
           LET location == TopologyNeighbour(topology, current_router, i)
               router_index == location.index
               egress ==
                   IF routing.down_distances[current_router][target_router] # None
                   THEN GoodDownwards(routing, current_router, router_index,
                                      target_router)
                   ELSE GoodUpwards(routing, current_router, router_index,
                                    target_router)
           IN IF location.kind = "RouterPort" /\ egress.good
              THEN {CandidateEgress(i, vc, egress.label, 1 + egress.new_hops) :
                        vc \in 0..(num_virtual_channels - 1)}
              ELSE {}
           : i \in 0..(TopologyPorts(topology, current_router) - 1)}

\* The candidates of the packet being routed at its current router.
Candidates ==
    ExplicitUpDownNext(updown.routing, updown.topology, updown.current, updown.target,
                       updown.target, NumVC)

\* A packet is generated at the server of source for the server of target.
Generate(source, target) ==
    /\ updown.source = None
    /\ updown' = [updown EXCEPT !.source = source, !.target = target,
                                !.current = source, !.hops = 0]

\* The packet commits to one of the candidates and crosses the link.
Hop ==
    /\ updown.current # None
    /\ updown.current # updown.target
    /\ \E candidate \in Candidates :
           updown' = [updown EXCEPT
               !.current = TopologyNeighbour(updown.topology, updown.current,
                                             candidate.port).index,
               !.hops = @ + 1]

\* At the target router the packet leaves through the port of its server.
Consume ==
    /\ updown.current # None
    /\ updown.current = updown.target
    /\ \E candidate \in Candidates :
           /\ TopologyNeighbour(updown.topology, updown.current, candidate.port) =
                  LocationServerPort(updown.target)
           /\ updown' = [updown EXCEPT !.current = None]

IdleNetwork ==
    /\ routers = <<>> /\ servers = <<>> /\ packets = <<>>
    /\ queue = EmptyBag /\ phase = {} /\ net_log = <<>>

InitUpDown ==
    /\ IdleISLIP
    /\ IdleNetwork
    /\ \E topology \in Topologies, root \in UpDownIndices,
          branch_crossings_downwards \in BOOLEAN, branch_crossings_upwards \in BOOLEAN :
         updown = [routing |-> Initialize(
                                   ExplicitUpDownNew(root, branch_crossings_downwards,
                                                     branch_crossings_upwards),
                                   topology),
                   topology |-> topology,
                   source |-> None, target |-> None, current |-> None, hops |-> 0]

NextUpDown ==
    \/ \E source \in UpDownIndices, target \in UpDownIndices :
           Generate(source, target) /\ UNCHANGED <<islip_vars, net_vars>>
    \/ Hop /\ UNCHANGED <<islip_vars, net_vars>>
    \/ Consume /\ UNCHANGED <<islip_vars, net_vars>>

SpecUpDown == InitUpDown /\ [][NextUpDown]_vars

\* The table of the routing and the packet in its way.
Travelling == updown.current # None
NoBranchCrossings ==
    /\ ~updown.routing.branch_crossings_downwards
    /\ ~updown.routing.branch_crossings_upwards
UpDownDistance(a, b) == updown.routing.up_down_distances[a][b]

\* C10: without branch crossings every candidate at a router other than the
\* target leads to a neighbour with a lower up/down distance to the target,
\* there is always such a candidate, and so the packet that has made some
\* hops is at most the up/down distance of its source minus these hops away:
\* it reaches the target in at most up_down_distances[source][target] hops.
C10_MonotoneProgress ==
    (Travelling /\ NoBranchCrossings) =>
        /\ updown.current # updown.target =>
               /\ Candidates # {}
               /\ \A candidate \in Candidates :
                      UpDownDistance(TopologyNeighbour(updown.topology, updown.current,
                                                       candidate.port).index,
                                     updown.target)
                          < UpDownDistance(updown.current, updown.target)
        /\ updown.hops + UpDownDistance(updown.current, updown.target)
               <= UpDownDistance(updown.source, updown.target)
        /\ updown.current = updown.target =>
               updown.hops <= UpDownDistance(updown.source, updown.target)

\* A packet that had to go up and then down, by a path that does not pass
\* through the root, has arrived at its target.
C10_Witness ==
    /\ Travelling /\ NoBranchCrossings
    /\ updown.current = updown.target
    /\ updown.routing.down_distances[updown.source][updown.target] = None
    /\ updown.hops >= 2
    /\ updown.hops = UpDownDistance(updown.source, updown.target)
    /\ UpDownDistance(updown.source, updown.target)
           < updown.routing.distance_to_root[updown.source]
               + updown.routing.distance_to_root[updown.target]

\* The neighbours of origin that reduce the up/down distance to destination,
\* as the test up_down_star counts them.
Improvers(origin, destination) ==
    {neighbour \in Range(NeighbourRouterIter(updown.topology, origin)) :
        /\ UpDownDistance(neighbour, destination) # None
        /\ UpDownDistance(neighbour, destination) < UpDownDistance(origin, destination)
        /\ \/ updown.routing.down_distances[origin][destination] # None
           \/ updown.routing.distance_to_root[origin] =
                  updown.routing.distance_to_root[neighbour] + 1}

\* C11: after initialize every entry of up_down_distances is defined, the
\* matrix is symmetric, and every origin has towards every other destination
\* a neighbour with a lower up/down distance that is one level closer to the
\* root, or any such neighbour when the down distance is defined.
C11_TableAdmitsProgress ==
    \A origin \in UpDownIndices, destination \in UpDownIndices :
        /\ UpDownDistance(origin, destination) # None
        /\ UpDownDistance(origin, destination) = UpDownDistance(destination, origin)
        /\ origin # destination => Improvers(origin, destination) # {}

\* A table in which the update has shortened a path that avoids the root,
\* with a pair that can only go up and a pair below the root that goes down.
C11_Witness ==
    /\ \E origin \in UpDownIndices, destination \in UpDownIndices :
           /\ updown.routing.down_distances[origin][destination] = None
           /\ UpDownDistance(origin, destination)
                  < updown.routing.distance_to_root[origin]
                      + updown.routing.distance_to_root[destination]
           /\ Improvers(origin, destination) # {}
    /\ \E origin \in UpDownIndices, destination \in UpDownIndices :
           /\ origin # destination /\ origin # updown.routing.root
           /\ updown.routing.down_distances[origin][destination] # None

(***************************************************************************)
(* UpDown, the up/down routing that asks the topology for the distances.   *)
(* The topology has the levels of a breadth first search from a root: a    *)
(* link between consecutive levels is an up/down link, and the up/down     *)
(* distance is the one of a shortest path that goes up and then down.      *)
(***************************************************************************)

\* The routers at most k links away from the routers in S.
RECURSIVE Ball(_, _, _)
Ball(neighbours, S, k) ==
    IF k = 0 THEN S
    ELSE Ball(neighbours, S \cup UNION {Range(neighbours[r]) : r \in S}, k - 1)

\* The level of each router: its distance to the root.
Levels(neighbours, root) ==
    [r \in UpDownIndices |->
        CHOOSE k \in 0..(UpDownRouters - 1) :
            /\ r \in Ball(neighbours, {root}, k)
            /\ k > 0 => r \notin Ball(neighbours, {root}, k - 1)]

\* The routers reached from the routers in S by k up-links.
RECURSIVE Upwards(_, _, _)
Upwards(topology, S, k) ==
    IF k = 0 THEN S
    ELSE Upwards(topology,
             {n \in UpDownIndices : \E r \in S :
                 /\ n \in Range(topology.neighbours[r])
                 /\ topology.levels[n] + 1 = topology.levels[r]},
             k - 1)

\* Option::None of an Option<(u8,u8)>.
NoDistance == <<>>

\* Topology::up_down_distance: the up-links and the down-links of a shortest
\* up/down path from origin to destination, or NoDistance without such a path.
TopologyUpDownDistance(topology, origin, destination) ==
    LET delta == topology.levels[destination] - topology.levels[origin]
        ups == {u \in 0..topology.levels[origin] :
                   /\ u + delta >= 0
                   /\ Upwards(topology, {origin}, u)
                          \cap Upwards(topology, {destination}, u + delta) # {}}
    IN IF ups = {} THEN NoDistance
       ELSE LET u == CHOOSE x \in ups : \A y \in ups : x <= y
            IN <<u, u + delta>>

\* A variant of the test of a neighbour that wants both distances lower.
AdmissibleBothLower(new, up_distance, down_distance) ==
    new[1] < up_distance /\ new[2] < down_distance

\* UpDown::next, the test of the distance (new_u, new_d) of a neighbour.
Admissible(new, up_distance, down_distance) ==
    \/ new[1] < up_distance /\ new[2] <= down_distance
    \/ new[1] <= up_distance /\ new[2] < down_distance

\* UpDown::next. Without an up/down path to the target it panics, and so it
\* does at distance 0 when the target server is not at the current router.
UpDownNext(topology, current_router, target_router, target_server, num_virtual_channels) ==
    LET distance == TopologyUpDownDistance(topology, current_router, target_router)
        ports == 0..(TopologyPorts(topology.neighbours, current_router) - 1)
    IN IF distance = NoDistance THEN [panicked |-> TRUE, candidates |-> {}]
       ELSE IF distance[1] + distance[2] = 0
       THEN LET found == {i \in ports :
                             TopologyNeighbour(topology.neighbours, current_router, i)
                                 = LocationServerPort(target_server)}
            IN IF found = {} THEN [panicked |-> TRUE, candidates |-> {}]
               ELSE [panicked |-> FALSE,
                     candidates |->
                         {CandidateEgress(CHOOSE i \in found : \A j \in found : i <= j,
                                          vc, 0, None) :
                              vc \in 0..(num_virtual_channels - 1)}]
       ELSE [panicked |-> FALSE,
             candidates |-> UNION {
                 LET location == TopologyNeighbour(topology.neighbours, current_router, i)
                     new == IF location.kind = "RouterPort"
                            THEN TopologyUpDownDistance(topology, location.index,
                                                        target_router)
                            ELSE NoDistance
                 IN IF new # NoDistance /\ Admissible(new, distance[1], distance[2])
                    THEN {CandidateEgress(i, vc, 0, None) :
                              vc \in 0..(num_virtual_channels - 1)}
                    ELSE {}
                 : i \in ports}]

\* The answer of UpDown::next for the packet at its current router.
CandidatesUpDown ==
    UpDownNext(updown.topology, updown.current, updown.target, updown.target, NumVC)

\* The packet commits to one of the candidates and crosses the link.
HopUpDown ==
    /\ updown.current # None
    /\ updown.current # updown.target
    /\ \E candidate \in CandidatesUpDown.candidates :
           updown' = [updown EXCEPT
               !.current = TopologyNeighbour(updown.topology.neighbours, updown.current,
                                             candidate.port).index,
               !.hops = @ + 1]

\* At the target router the packet leaves through the port of its server.
ConsumeUpDown ==
    /\ updown.current # None
    /\ updown.current = updown.target
    /\ \E candidate \in CandidatesUpDown.candidates :
           /\ TopologyNeighbour(updown.topology.neighbours, updown.current,
                                candidate.port) = LocationServerPort(updown.target)
           /\ updown' = [updown EXCEPT !.current = None]

InitTopologyUpDown ==
    /\ IdleISLIP
    /\ IdleNetwork
    /\ \E neighbours \in Topologies, root \in UpDownIndices :
         updown = [routing |-> <<>>,
                   topology |-> [neighbours |-> neighbours,
                                 levels |-> Levels(neighbours, root)],
                   source |-> None, target |-> None, current |-> None, hops |-> 0]

NextTopologyUpDown ==
    \/ \E source \in UpDownIndices, target \in UpDownIndices :
           Generate(source, target) /\ UNCHANGED <<islip_vars, net_vars>>
    \/ HopUpDown /\ UNCHANGED <<islip_vars, net_vars>>
    \/ ConsumeUpDown /\ UNCHANGED <<islip_vars, net_vars>>

SpecTopologyUpDown == InitTopologyUpDown /\ [][NextTopologyUpDown]_vars

\* The ports of the current router towards a neighbour router whose up/down
\* distance to the target is defined and admissible from (u, d).
AdmissiblePorts(u, d) ==
    {i \in 0..(TopologyPorts(updown.topology.neighbours, updown.current) - 1) :
        LET location == TopologyNeighbour(updown.topology.neighbours, updown.current, i)
        IN /\ location.kind = "RouterPort"
           /\ LET new == TopologyUpDownDistance(updown.topology, location.index,
                                                updown.target)
              IN /\ new # NoDistance
                 /\ \/ new[1] < u /\ new[2] <= d
                    \/ new[1] <= u /\ new[2] < d}

\* The sum of the up/down distance from a router to the target.
Potential(router) ==
    LET distance == TopologyUpDownDistance(updown.topology, router, updown.target)
    IN distance[1] + distance[2]

\* C12: at a router other than the target UpDown::next returns, for every
\* virtual channel, exactly the ports to the neighbour routers with an
\* admissible up/down distance, and u+d is lower at every one of them; at
\* distance 0 it returns exactly the port of the target server, for every
\* virtual channel.
C12_UpDownCandidates ==
    Travelling =>
        LET distance == TopologyUpDownDistance(updown.topology, updown.current,
                                               updown.target)
            answer == CandidatesUpDown
        IN /\ ~answer.panicked
           /\ updown.current # updown.target =>
                  /\ {<<c.port, c.virtual_channel>> : c \in answer.candidates}
                         = AdmissiblePorts(distance[1], distance[2]) \X VCs
                  /\ \A c \in answer.candidates :
                         Potential(TopologyNeighbour(updown.topology.neighbours,
                                                     updown.current, c.port).index)
                             < Potential(updown.current)
           /\ distance[1] + distance[2] = 0 =>
                  {<<c.port, c.virtual_channel>> : c \in answer.candidates}
                      = {i \in 0..(TopologyPorts(updown.topology.neighbours,
                                                 updown.current) - 1) :
                            TopologyNeighbour(updown.topology.neighbours,
                                              updown.current, i)
                                = LocationServerPort(updown.target)} \X VCs

\* The packet is at a router with several admissible ports, with a port to a
\* router that is not admissible, and more than one hop away from the target.
C12_Witness ==
    /\ Travelling
    /\ updown.current # updown.target
    /\ LET distance == TopologyUpDownDistance(updown.topology, updown.current,
                                              updown.target)
           admissible == AdmissiblePorts(distance[1], distance[2])
       IN /\ distance[1] >= 1 /\ distance[2] >= 1
          /\ Cardinality(admissible) >= 2
          /\ Cardinality(admissible) < Len(updown.topology.neighbours[updown.current])
          /\ Cardinality(CandidatesUpDown.candidates) = NumVC * Cardinality(admissible)

\* The Generic event that makes router r process at the End of this cycle.
WakePending(r) == BagIn(EventGeneric(0, r), queue)

\* Some Begin event of this cycle is still to be served.
BeginPending == \E ev \in BagToSet(queue) : ev.at = 0 /\ ev.position = "Begin"

\* Steps in which router r receives a phit, receives an acknowledgement, and
\* runs process.
Received(r) ==
    \E p \in Ports, v \in VCs :
        Len(routers'[r].reception_port_space[p][v])
            > Len(routers[r].reception_port_space[p][v])
Acknowledged(r) ==
    \E p \in RingPorts, v \in VCs :
        routers'[r].neighbour_credits[p][v] > routers[r].neighbour_credits[p][v]
Processes(r) ==
    routers[r].last_process_at_cycle # 0 /\ routers'[r].last_process_at_cycle = 0

\* C13: after a phit or an acknowledgement arrives at a router, the router
\* has its wake-up pending at the End of this very cycle and has not yet
\* processed in it; a pending wake-up stays until the router processes; and
\* the router processes only when no Begin event of the cycle remains.
C13_SameCycleVisibility ==
    [][\A r \in RouterIndices :
          /\ (Received(r) \/ Acknowledged(r)) =>
                 /\ WakePending(r)'
                 /\ routers'[r].last_process_at_cycle # 0
                 /\ ~routers'[r].panicked
          /\ WakePending(r) => (WakePending(r)' \/ Processes(r))
          /\ Processes(r) => (~BeginPending /\ ~routers'[r].panicked)]_vars

\* A router that processed in an earlier cycle holds a phit that arrived by
\* a link, its wake-up of this cycle is pending, and other arrivals of the
\* cycle are still to be served.
C13_Witness ==
    \E r \in RouterIndices :
        /\ WakePending(r)
        /\ BeginPending
        /\ routers[r].last_process_at_cycle = 1
        /\ \E p \in RingPorts, v \in VCs : routers[r].reception_port_space[p][v] # <<>>

(***************************************************************************)
(* The self-scheduling of a Basic router alone: schedule is called with    *)
(* any delay, the wake-ups are served when their cycle comes, and the      *)
(* cycles pass.                                                            *)
(***************************************************************************)

\* The largest delay schedule is called with.
MaxDelay == 4

NoCall == [called |-> FALSE, delay |-> 0, before |-> <<>>, events |-> EmptyBag]

\* A call of schedule(current_cycle, delay).
CallSchedule(delay) ==
    LET result == Schedule(routers[0], 0, delay)
    IN /\ routers' = [routers EXCEPT ![0] = result.R]
       /\ queue' = queue (+) result.events
       /\ net_log' = [called |-> TRUE, delay |-> delay,
                      before |-> routers[0].next_events, events |-> result.events]
       /\ UNCHANGED <<servers, packets, phase>>

\* The Generic event of this cycle is served: what process does with the
\* stack of wake-ups, next_events.pop().
ServeWake ==
    /\ BagIn(EventGeneric(0, 0), queue)
    /\ queue' = Served(queue, EventGeneric(0, 0))
    /\ routers' = [routers EXCEPT
           ![0].next_events = SubSeq(@, 1, Len(@) - 1)]
    /\ net_log' = NoCall
    /\ UNCHANGED <<servers, packets, phase>>

\* The cycle ends when none of its events remains.
CycleEnds ==
    /\ queue # EmptyBag
    /\ \A ev \in BagToSet(queue) : ev.at > 0
    /\ queue' = Later(queue)
    /\ routers' = [routers EXCEPT
           ![0].next_events = [i \in 1..Len(@) |-> @[i] - 1]]
    /\ net_log' = NoCall
    /\ UNCHANGED <<servers, packets, phase>>

InitSchedule ==
    /\ IdleISLIP
    /\ updown = NoRouting
    /\ routers = [r \in {0} |-> BasicNew(TRUE, FALSE, FALSE)]
    /\ servers = <<>>
    /\ packets = <<>>
    /\ queue = EmptyBag
    /\ phase = {}
    /\ net_log = NoCall

NextSchedule ==
    \/ \E delay \in 0..MaxDelay :
           CallSchedule(delay) /\ UNCHANGED <<islip_vars, updown>>
    \/ ServeWake /\ UNCHANGED <<islip_vars, updown>>
    \/ CycleEnds /\ UNCHANGED <<islip_vars, updown>>

SpecSchedule == InitSchedule /\ [][NextSchedule]_vars

\* C14: a call of schedule pushes its target on the stack of pending
\* wake-ups and returns one Generic event, at the End position and with the
\* delay of the target, exactly when the stack was empty or the target is
\* earlier than every pending wake-up; otherwise it returns nothing and the
\* stack is as before.  However many calls there were, each pending wake-up
\* has exactly one Generic event in the queue, and every event a wake-up.
C14_IdempotentSchedule ==
    /\ net_log.called =>
           IF \A i \in 1..Len(net_log.before) : net_log.delay < net_log.before[i]
           THEN /\ routers[0].next_events = Append(net_log.before, net_log.delay)
                /\ net_log.events = SetToBag({[at |-> net_log.delay, position |-> "End",
                                               kind |-> "Generic",
                                               location |-> [kind |-> "Router",
                                                             index |-> 0, port |-> 0],
                                               phit |-> NoPhit, message |-> NoMessage]})
           ELSE /\ routers[0].next_events = net_log.before
                /\ net_log.events = EmptyBag
    /\ \A target \in 0..MaxDelay :
           CopiesIn(EventGeneric(target, 0), queue) =
               IF target \in Range(routers[0].next_events) THEN 1 ELSE 0
    /\ \A ev \in BagToSet(queue) : ev.at \in Range(routers[0].next_events)

\* A call for a target that is already pending behind a sooner wake-up has
\* returned no event.
C14_Witness ==
    /\ net_log.called
    /\ net_log.events = EmptyBag
    /\ Len(routers[0].next_events) >= 2
    /\ net_log.delay \in Range(routers[0].next_events)
    /\ net_log.delay > routers[0].next_events[Len(routers[0].next_events)]

(***************************************************************************)
(* The link from a server to its router alone (TransmissionFromOblivious): *)
(* the server with its StatusAtServer sends the phits of its packets, the  *)
(* router stores them in the AgnosticParallelBuffers of the port and       *)
(* extracts them, and the acknowledgements travel back.  The link has any  *)
(* delay from 1 to MaxLinkDelay.                                           *)
(***************************************************************************)

\* The largest delay of the link.
MaxLinkDelay == 2

NothingDone == [kind |-> "", phit |-> NoPhit, vc |-> None, before |-> 0,
                message |-> NoMessage]

\* The buffers of the port of the server, and the largest free space.
ObliviousSpace == routers[0].reception_port_space[ServerPort]
LargestFree ==
    CHOOSE a \in {BufferSize - Len(ObliviousSpace[v]) : v \in VCs} :
        \A v \in VCs : a >= BufferSize - Len(ObliviousSpace[v])

\* The server sends the next phit of its packet, or the head of a new one
\* when StatusAtServer::can_transmit allows it.
ObliviousSend ==
    /\ ~routers[0].panicked
    /\ "send" \notin phase
    /\ \E size \in 1..MaximumPacketSize :
         LET new == servers[0].sending = 0
             packet == IF new THEN Len(packets) + 1 ELSE servers[0].sending
             index == servers[0].next_index
             last == index = (IF new THEN size ELSE packets[packet].size) - 1
         IN /\ new => Len(packets) < MaxPackets
            /\ ~new => size = 1
            /\ ServerCanTransmit(servers[0], index)
            /\ packets' = IF new
                          THEN Append(packets, [source |-> 0, destination |-> 0,
                                                size |-> size])
                          ELSE packets
            /\ servers' = [servers EXCEPT
                   ![0].available_size = @ - 1,
                   ![0].sending = IF last THEN 0 ELSE packet,
                   ![0].next_index = IF last THEN 0 ELSE index + 1]
            /\ queue' = queue (+) SetToBag({EventPhitToLocation(net_log.link_delay,
                            [packet |-> packet, index |-> index,
                             virtual_channel |-> None],
                            ServerNeighbour(0))})
    /\ phase' = phase \cup {"send"}
    /\ net_log' = [net_log EXCEPT !.last = NothingDone]
    /\ UNCHANGED routers

\* AgnosticParallelBuffers::insert of the phit that arrives.
ObliviousInsert ==
    /\ ~routers[0].panicked
    /\ NextEvent # NoEvent
    /\ NextEvent.kind = "PhitToLocation"
    /\ LET phit == NextEvent.phit
           good == InsertChoices(routers[0], ServerPort, phit)
       IN IF good = {}
          THEN /\ routers' = [routers EXCEPT ![0].panicked = TRUE]
               /\ UNCHANGED net_log
          ELSE \E vc \in good :
                 /\ routers' = [routers EXCEPT
                        ![0].reception_port_space[ServerPort][vc] =
                            Append(@, [phit EXCEPT !.virtual_channel = vc]),
                        ![0].currently_selected = vc]
                 /\ net_log' = [net_log EXCEPT
                        !.last = [kind |-> "insert", phit |-> phit, vc |-> vc,
                                  before |-> BufferSize - Len(ObliviousSpace[vc]),
                                  message |-> NoMessage],
                        !.placed = IF IsBegin(phit)
                                   THEN [p \in DOMAIN @ \cup {phit.packet} |->
                                            IF p = phit.packet THEN vc ELSE @[p]]
                                   ELSE @]
    /\ queue' = Served(queue, NextEvent)
    /\ UNCHANGED <<servers, packets, phase>>

\* AgnosticParallelBuffers::extract of the front of a buffer; the message
\* goes to the server.
ObliviousExtract(vc) ==
    /\ ~routers[0].panicked
    /\ NextEvent = NoEvent
    /\ "extract" \notin phase
    /\ ObliviousSpace[vc] # <<>>
    /\ LET space == [ObliviousSpace EXCEPT ![vc] = Tail(@)]
           message == ExtractMessage(space, ServerPort, vc)
       IN /\ routers' = [routers EXCEPT ![0].reception_port_space[ServerPort] = space]
          /\ queue' = queue (+) SetToBag({EventAcknowledge(net_log.link_delay,
                          [kind |-> "ServerPort", index |-> 0, port |-> 0], message)})
          /\ net_log' = [net_log EXCEPT
                 !.last = [kind |-> "extract", phit |-> Head(ObliviousSpace[vc]),
                           vc |-> vc, before |-> 0, message |-> message]]
    /\ phase' = phase \cup {"extract"}
    /\ UNCHANGED <<servers, packets>>

\* StatusAtServer::acknowledge of the message that arrives.
ObliviousAcknowledge ==
    /\ ~routers[0].panicked
    /\ NextEvent # NoEvent
    /\ NextEvent.kind = "Acknowledge"
    /\ servers' = [servers EXCEPT
           ![0] = StatusAtServerAcknowledge(@, NextEvent.message)]
    /\ net_log' = [net_log EXCEPT
           !.last = [kind |-> "acknowledge", phit |-> NoPhit, vc |-> None,
                     before |-> servers[0].available_size,
                     message |-> NextEvent.message]]
    /\ queue' = Served(queue, NextEvent)
    /\ UNCHANGED <<routers, packets, phase>>

\* The cycle ends.
ObliviousCycle ==
    /\ ~routers[0].panicked
    /\ NextEvent = NoEvent
    /\ queue # EmptyBag \/ phase # {}
    /\ queue' = Later(queue)
    /\ phase' = {}
    /\ net_log' = [net_log EXCEPT !.last = NothingDone]
    /\ UNCHANGED <<routers, servers, packets>>

InitOblivious ==
    /\ IdleISLIP
    /\ updown = NoRouting
    /\ routers = [r \in {0} |-> BasicNew(TRUE, FALSE, FALSE)]
    /\ servers = [s \in {0} |-> ServerNew]
    /\ packets = <<>>
    /\ queue = EmptyBag
    /\ phase = {}
    /\ \E link_delay \in 1..MaxLinkDelay :
           net_log = [link_delay |-> link_delay, last |-> NothingDone, placed |-> <<>>]

NextOblivious ==
    \/ ObliviousSend /\ UNCHANGED <<islip_vars, updown>>
    \/ ObliviousInsert /\ UNCHANGED <<islip_vars, updown>>
    \/ \E vc \in VCs : ObliviousExtract(vc) /\ UNCHANGED <<islip_vars, updown>>
    \/ ObliviousAcknowledge /\ UNCHANGED <<islip_vars, updown>>
    \/ ObliviousCycle /\ UNCHANGED <<islip_vars, updown>>

SpecOblivious == InitOblivious /\ [][NextOblivious]_vars

\* C15: the message of an extraction fixes the available size at the largest
\* free space of the buffers after the extraction minus twice the delay of
\* the link, and at 0 if that is negative.
C15_AckValue ==
    net_log.last.kind = "extract" =>
        net_log.last.message =
            AckFixAvailableSize(Max(LargestFree - 2 * net_log.link_delay, 0))

\* StatusAtServer::acknowledge of AckFixAvailableSize(x).
AcknowledgeFix(S, x) == StatusAtServerAcknowledge(S, AckFixAvailableSize(x))

\* C16: whatever the server knows, an acknowledgement AckFixAvailableSize(x)
\* sets available_size to the maximum of its value and x, never lowers it,
\* applied twice does what it does once, and two acknowledgements give the
\* same in either order; and so did the acknowledgement that has arrived.
C16_MonotoneAcknowledge ==
    /\ \A x \in 0..BufferSize, y \in 0..BufferSize :
           LET S == servers[0] IN
           /\ AcknowledgeFix(S, x).available_size = Max(S.available_size, x)
           /\ AcknowledgeFix(S, x).available_size >= S.available_size
           /\ AcknowledgeFix(AcknowledgeFix(S, x), x) = AcknowledgeFix(S, x)
           /\ AcknowledgeFix(AcknowledgeFix(S, x), y)
                  = AcknowledgeFix(AcknowledgeFix(S, y), x)
    /\ net_log.last.kind = "acknowledge" =>
           servers[0].available_size =
               Max(net_log.last.before, net_log.last.message.set_available_size)

\* An acknowledgement with less space than the server knew has arrived and
\* the server knows what it knew.
C16_Witness ==
    /\ net_log.last.kind = "acknowledge"
    /\ net_log.last.message.set_available_size < net_log.last.before
    /\ servers[0].available_size = net_log.last.before

\* The insertion of the phit that arrives, into buffer vc.
ObliviousInsertInto(vc) == ObliviousInsert /\ routers'[0].currently_selected = vc

\* C17: the head that has been inserted is in a buffer that had room for the
\* whole packet, the other phits are in the buffer of their head, every phit
\* in a buffer has the index of the buffer as virtual channel, and a head
\* that arrives can get into any of the buffers with room for its packet.
C17_Placement ==
    /\ net_log.last.kind = "insert" =>
           LET phit == net_log.last.phit
               vc == net_log.last.vc
           IN /\ IsBegin(phit) => net_log.last.before >= packets[phit.packet].size
              /\ vc = net_log.placed[phit.packet]
              /\ ObliviousSpace[vc] # <<>>
              /\ ObliviousSpace[vc][Len(ObliviousSpace[vc])]
                     = [phit EXCEPT !.virtual_channel = vc]
    /\ \A v \in VCs : \A i \in 1..Len(ObliviousSpace[v]) :
           /\ ObliviousSpace[v][i].virtual_channel = v
           /\ net_log.placed[ObliviousSpace[v][i].packet] = v
    /\ (NextEvent # NoEvent /\ NextEvent.kind = "PhitToLocation"
            /\ IsBegin(NextEvent.phit)) =>
           \A v \in VCs :
               BufferSize - Len(ObliviousSpace[v]) >= packets[NextEvent.phit.packet].size
                   => ENABLED ObliviousInsertInto(v)

\* The second phit of a packet has been inserted behind its head in the
\* second buffer, which was picked while the first buffer was empty.
C17_Witness ==
    /\ net_log.last.kind = "insert"
    /\ net_log.last.phit.index = 1
    /\ net_log.last.vc = 1
    /\ ObliviousSpace[0] = <<>>
    /\ Len(ObliviousSpace[1]) >= 2

(***************************************************************************)
(* The 4x4 scenario of the iSLIP allocator: four clients, four resources,  *)
(* one iteration, and six requests added in any order to a new allocator.  *)
(***************************************************************************)

ScenarioRequests ==
    {<<0, 0>>, <<0, 1>>, <<1, 0>>, <<1, 2>>, <<2, 2>>, <<3, 3>>}

InitISLIPScenario ==
    /\ islip = ISLIPAllocatorNew(4, 4, 1)
    /\ islip_log = [calls |-> 0, requested |-> {},
                    before |-> PointersOf(ISLIPAllocatorNew(4, 4, 1)),
                    panicked |-> FALSE]
    /\ gr = <<>>
    /\ fixed = ScenarioRequests
    /\ IdleNetwork
    /\ updown = NoRouting

\* ISLIPAllocator::add_request of one of the requests of the scenario, before
\* the allocation.
AddScenarioRequest(client, resource) ==
    /\ islip_log.calls = 0
    /\ IsValidRequest(islip, client, resource)
    /\ <<client, resource>> \in fixed
    /\ <<client, resource>> \notin RequestsOf(islip)
    /\ islip' = [islip EXCEPT
                   !.in_requests[client]  = RoundVecAdd(@, resource),
                   !.out_requests[resource] = RoundVecAdd(@, client)]
    /\ UNCHANGED <<gr, islip_log, fixed>>

NextISLIPScenario ==
    \/ \E c \in 0..3, r \in 0..3 :
           AddScenarioRequest(c, r) /\ UNCHANGED <<net_vars, updown>>
    \/ PerformAllocation /\ UNCHANGED <<net_vars, updown>>

SpecISLIPScenario == InitISLIPScenario /\ [][NextISLIPScenario]_vars

\* C18: in the 4x4 scenario, with one iteration and all the pointers at 0,
\* the allocation of the requests (0,0), (0,1), (1,0), (1,2), (2,2), (3,3)
\* grants exactly (0,0), (1,2) and (3,3), in whatever order they were added.
C18_Scenario ==
    (/\ islip_log.calls = 1
     /\ islip_log.requested = ScenarioRequests
     /\ \A c \in 0..3 : islip_log.before.in[c] = 0
     /\ \A r \in 0..3 : islip_log.before.out[r] = 0)
        => GrantedPairs = {<<0, 0>>, <<1, 2>>, <<3, 3>>}

\* The allocation of the scenario has been performed: (2,2), (0,1) and (1,0)
\* are denied and the three grants come from the only iteration.
C18_Witness ==
    /\ islip_log.calls = 1
    /\ islip_log.requested = ScenarioRequests
    /\ islip.num_clients = 4 /\ islip.num_resources = 4 /\ islip.num_iterations = 1
    /\ \A c \in 0..3 : islip_log.before.in[c] = 0
    /\ \A r \in 0..3 : islip_log.before.out[r] = 0
    /\ Len(gr) = 3
    /\ {<<2, 2>>, <<0, 1>>, <<1, 0>>} \cap GrantedPairs = {}
    /\ \A i \in 1..Len(gr) : gr[i].iter = 0

(***************************************************************************)
(* The link between two routers alone (SimpleVirtualChannels): the emissor *)
(* with its CreditCounterVector sends the five phits of one packet through *)
(* one of two virtual channels, the receptor stores them in its            *)
(* ParallelBuffers of 8 phits and extracts them, and the acknowledgements  *)
(* travel back.  The link keeps the order of what it carries.              *)
(***************************************************************************)

\* SimpleVirtualChannels::new_status_at_emissor
CreditCounterVectorNew(virtual_channels, buffer_size, flit_size) ==
    [neighbour_credits |-> [vc \in 0..(virtual_channels - 1) |-> buffer_size],
     flit_size |-> flit_size]

\* SimpleVirtualChannels::new_space_at_receptor
ParallelBuffersNew(virtual_channels) == [vc \in 0..(virtual_channels - 1) |-> <<>>]

\* CreditCounterVector::acknowledge
CreditCounterAcknowledge(status, message) ==
    [status EXCEPT !.neighbour_credits[message.virtual_channel] = @ + 1]

\* A variant of notify_outcoming_phit that keeps the credit.
CreditCounterNotifyKeepsCredit(status, virtual_channel) == status

\* CreditCounterVector::notify_outcoming_phit
CreditCounterNotifyOutcomingPhit(status, virtual_channel) ==
    [status EXCEPT !.neighbour_credits[virtual_channel] = @ - 1]

\* CreditCounterVector::can_transmit
CreditCounterCanTransmit(status, phit, virtual_channel) ==
    LET necessary_credits == IF IsBegin(phit) THEN status.flit_size ELSE 1
    IN status.neighbour_credits[virtual_channel] >= necessary_credits

\* The phit that the emissor sends next, and the credit of a virtual channel.
CreditLinkNextPhit ==
    [packet |-> 1, index |-> net_log.next_index,
     virtual_channel |-> net_log.virtual_channel]
CreditOf(vc) == routers.status.neighbour_credits[vc]

\* The emissor sends the next phit of the packet when can_transmit allows it.
CreditLinkSend ==
    /\ net_log.next_index < packets[1].size
    /\ CreditCounterCanTransmit(routers.status, CreditLinkNextPhit,
                                net_log.virtual_channel)
    /\ routers' = [routers EXCEPT
           !.status = CreditCounterNotifyOutcomingPhit(@, net_log.virtual_channel)]
    /\ queue' = [queue EXCEPT !.phits = Append(@, CreditLinkNextPhit)]
    /\ net_log' = [net_log EXCEPT !.next_index = @ + 1, !.last = CreditLinkNextPhit]
    /\ UNCHANGED <<servers, packets, phase>>

\* ParallelBuffers::insert of the phit that arrives, in the buffer of its
\* virtual channel.
CreditLinkInsert ==
    /\ queue.phits # <<>>
    /\ LET phit == Head(queue.phits)
       IN routers' = [routers EXCEPT !.space[phit.virtual_channel] = Append(@, phit)]
    /\ queue' = [queue EXCEPT !.phits = Tail(@)]
    /\ net_log' = [net_log EXCEPT !.last = NoPhit]
    /\ UNCHANGED <<servers, packets, phase>>

\* ParallelBuffers::extract of the front of a buffer; its message goes back.
CreditLinkExtract(vc) ==
    /\ routers.space[vc] # <<>>
    /\ routers' = [routers EXCEPT !.space[vc] = Tail(@)]
    /\ queue' = [queue EXCEPT
           !.acknowledges = Append(@, AckPhitClearFromVirtualChannel(vc))]
    /\ net_log' = [net_log EXCEPT !.last = NoPhit]
    /\ UNCHANGED <<servers, packets, phase>>

\* The acknowledgement that arrives at the emissor.
CreditLinkAcknowledge ==
    /\ queue.acknowledges # <<>>
    /\ routers' = [routers EXCEPT
           !.status = CreditCounterAcknowledge(@, Head(queue.acknowledges))]
    /\ queue' = [queue EXCEPT !.acknowledges = Tail(@)]
    /\ net_log' = [net_log EXCEPT !.last = NoPhit]
    /\ UNCHANGED <<servers, packets, phase>>

\* buffer_size=8, flit_size=4, 2 virtual channels and a packet of 5 phits.
InitCreditLink ==
    /\ IdleISLIP
    /\ updown = NoRouting
    /\ routers = [status |-> CreditCounterVectorNew(2, 8, 4),
                  space |-> ParallelBuffersNew(2)]
    /\ servers = <<>>
    /\ packets = <<[source |-> 0, destination |-> 1, size |-> 5]>>
    /\ queue = [phits |-> <<>>, acknowledges |-> <<>>]
    /\ phase = {}
    /\ \E virtual_channel \in 0..1 :
           net_log = [virtual_channel |-> virtual_channel, next_index |-> 0,
                      last |-> NoPhit]

NextCreditLink ==
    \/ CreditLinkSend /\ UNCHANGED <<islip_vars, updown>>
    \/ CreditLinkInsert /\ UNCHANGED <<islip_vars, updown>>
    \/ \E vc \in 0..1 : CreditLinkExtract(vc) /\ UNCHANGED <<islip_vars, updown>>
    \/ CreditLinkAcknowledge /\ UNCHANGED <<islip_vars, updown>>

SpecCreditLink == InitCreditLink /\ [][NextCreditLink]_vars

\* The head phit has just departed.
HeadDeparted == net_log.last.virtual_channel # None /\ IsBegin(net_log.last)

\* The tail has been sent and every acknowledgement has come back.
AllAcknowledged ==
    /\ net_log.next_index = packets[1].size
    /\ queue.phits = <<>>
    /\ queue.acknowledges = <<>>
    /\ \A vc \in 0..1 : routers.space[vc] = <<>>

\* What the scenario says of the body phits, of the end and of the other
\* virtual channel.
CreditLinkRest ==
    /\ (net_log.next_index \in 1..(packets[1].size - 1)) =>
           (CreditCounterCanTransmit(routers.status, CreditLinkNextPhit,
                                     net_log.virtual_channel)
                <=> CreditOf(net_log.virtual_channel) >= 1)
    /\ AllAcknowledged => CreditOf(net_log.virtual_channel) = 8
    /\ CreditOf(1 - net_log.virtual_channel) = 8

\* C19: in the credit-counter link scenario the credit of the virtual channel
\* of the packet is 7 after the head phit departs (one credit per phit), each
\* body phit is transmittable exactly when the credit is at least 1, the
\* credit is 8 again once the tail has been sent and one acknowledgement per
\* phit has come back, and the credit of the other virtual channel is always 8.
C19_CreditLink ==
    /\ HeadDeparted => CreditOf(net_log.virtual_channel) = 8 - 1
    /\ CreditLinkRest

\* C19 as stated: the credit is 4 after the head phit departs.
C19_AsStated ==
    /\ HeadDeparted => CreditOf(net_log.virtual_channel) = 4
    /\ CreditLinkRest

\* The five phits have been sent through virtual channel 1 and have come back
\* as five acknowledgements.
C19_Witness ==
    /\ AllAcknowledged
    /\ net_log.virtual_channel = 1
    /\ CreditOf(1) = 8
    /\ net_log.last = NoPhit

\* The request (client, resource) is out of the range of the allocator.
OutOfRange(client, resource) ==
    client >= islip.num_clients \/ resource >= islip.num_resources

\* The step is a call to add_request with (client, resource).
AddRequestCalled(client, resource) ==
    AddRequest(client, resource) \/ AddInvalidRequest(client, resource)

\* C20: add_request with a client or a resource out of range fails fatally
\* and leaves every request list as it was; add_request with a valid request
\* appends the resource to in_requests[client] and the client to
\* out_requests[resource], and changes no other list.
C20_RejectsBadRequests ==
    [][\A client \in 0..MaxClients, resource \in 0..MaxResources :
          AddRequestCalled(client, resource) =>
              IF OutOfRange(client, resource)
              THEN /\ islip_log'.panicked
                   /\ islip' = islip
              ELSE /\ ~islip_log'.panicked
                   /\ \A c \in Clients :
                          islip'.in_requests[c].requested_indices =
                              IF c = client
                              THEN Append(islip.in_requests[c].requested_indices,
                                          resource)
                              ELSE islip.in_requests[c].requested_indices
                   /\ \A r \in Resources :
                          islip'.out_requests[r].requested_indices =
                              IF r = resource
                              THEN Append(islip.out_requests[r].requested_indices,
                                          client)
                              ELSE islip.out_requests[r].requested_indices
                   /\ DOMAIN islip'.in_requests = Clients
                   /\ DOMAIN islip'.out_requests = Resources]_vars

\* After two valid requests were recorded, a request out of range has made
\* the allocator fail, and the two requests are all that its lists hold.
C20_Witness ==
    /\ islip_log.panicked
    /\ Cardinality(RequestsOf(islip)) = 2
    /\ \A c \in Clients :
           Len(islip.in_requests[c].requested_indices) =
               Cardinality({r \in Resources : <<c, r>> \in RequestsOf(islip)})
    /\ \A r \in Resources :
           Len(islip.out_requests[r].requested_indices) =
               Cardinality({c \in Clients : <<c, r>> \in RequestsOf(islip)})

(***************************************************************************)
(* ParallelBuffers alone: phits of a few packets, with or without a        *)
(* virtual channel, are inserted in any order, and the buffers are         *)
(* extracted in any order.                                                 *)
(***************************************************************************)

\* The number of insertions of a run.
MaxInserted == 3

\* Buffer::push
BufferPush(buffer, phit) == Append(buffer, phit)

\* A variant of pop that takes the newest phit.
BufferPopBack(buffer) ==
    [buffer |-> SubSeq(buffer, 1, Len(buffer) - 1), phit |-> buffer[Len(buffer)]]

\* Buffer::pop of a buffer with phits.
BufferPop(buffer) == [buffer |-> Tail(buffer), phit |-> Head(buffer)]

\* A function without one of the elements of its domain.
Without(f, x) == [y \in DOMAIN f \ {x} |-> f[y]]

\* ParallelBuffers::insert; r is the number drawn from the generator.
ParallelBuffersInsert(space, phit, r) ==
    LET choices == space.input_virtual_channel_choices
        known == phit.packet \in DOMAIN choices
        assigned == phit.virtual_channel = None
        fatal == assigned /\ ~IsBegin(phit) /\ ~known
        vc == IF ~assigned THEN phit.virtual_channel
              ELSE IF IsBegin(phit) THEN r
              ELSE IF known THEN choices[phit.packet] ELSE None
        chosen == IF assigned /\ IsBegin(phit)
                  THEN [p \in DOMAIN choices \cup {phit.packet} |->
                           IF p = phit.packet THEN r ELSE choices[p]]
                  ELSE choices
        kept == IF assigned /\ IsEnd(phit) THEN Without(chosen, phit.packet)
                ELSE chosen
    IN IF fatal THEN [space |-> space, panicked |-> TRUE]
       ELSE [space |->
                [buffers |-> [space.buffers EXCEPT ![vc] =
                                 BufferPush(@, [phit EXCEPT !.virtual_channel = vc])],
                 input_virtual_channel_choices |-> kept],
             panicked |-> FALSE]

\* ParallelBuffers::extract
ParallelBuffersExtract(space, virtual_channel) ==
    IF space.buffers[virtual_channel] = <<>>
    THEN [space |-> space, phit |-> NoPhit, message |-> NoMessage, error |-> TRUE]
    ELSE [space |-> [space EXCEPT !.buffers[virtual_channel] = BufferPop(@).buffer],
          phit |-> BufferPop(space.buffers[virtual_channel]).phit,
          message |-> AckPhitClearFromVirtualChannel(virtual_channel),
          error |-> FALSE]

NoCallBuffers == [kind |-> "", phit |-> NoPhit, vc |-> None, message |-> NoMessage,
                  error |-> FALSE, before |-> <<>>, heads |-> {}, stored |-> <<>>]

\* A phit arrives: any phit of the packets that has not arrived yet, with
\* its virtual channel set or not.
BuffersInsert(packet, index, virtual_channel, r) ==
    /\ ~routers.panicked
    /\ Cardinality(net_log.inserted) < MaxInserted
    /\ index < packets[packet].size
    /\ <<packet, index>> \notin net_log.inserted
    /\ LET phit == [packet |-> packet, index |-> index,
                    virtual_channel |-> virtual_channel]
           res == ParallelBuffersInsert(routers.space, phit, r)
       IN /\ routers' = [space |-> res.space, panicked |-> res.panicked]
          /\ net_log' = [last |-> [NoCallBuffers EXCEPT
                                      !.kind = "insert", !.phit = phit,
                                      !.before = routers.space.buffers,
                                      !.heads = net_log.heads,
                                      !.stored = net_log.stored],
                         inserted |-> net_log.inserted \cup {<<packet, index>>},
                         heads |-> net_log.heads \cup
                                       (IF index = 0 THEN {packet} ELSE {}),
                         stored |-> IF res.panicked THEN net_log.stored
                                    ELSE Append(net_log.stored, <<packet, index>>)]
    /\ UNCHANGED <<servers, packets, queue, phase>>

\* The front of a buffer is asked for.
BuffersExtract(virtual_channel) ==
    /\ ~routers.panicked
    /\ LET res == ParallelBuffersExtract(routers.space, virtual_channel)
       IN /\ routers' = [routers EXCEPT !.space = res.space]
          /\ net_log' = [net_log EXCEPT
                 !.last = [NoCallBuffers EXCEPT
                              !.kind = "extract", !.phit = res.phit,
                              !.vc = virtual_channel, !.message = res.message,
                              !.error = res.error,
                              !.before = routers.space.buffers,
                              !.stored = net_log.stored],
                 !.stored = IF res.error THEN @
                            ELSE SelectSeq(@, LAMBDA x :
                                     x # <<res.phit.packet, res.phit.index>>)]
    /\ UNCHANGED <<servers, packets, queue, phase>>

InitBuffers ==
    /\ IdleISLIP
    /\ updown = NoRouting
    /\ routers = [space |-> [buffers |-> ParallelBuffersNew(NumVC),
                             input_virtual_channel_choices |-> <<>>],
                  panicked |-> FALSE]
    /\ servers = <<>>
    /\ \E sizes \in [1..MaxPackets -> 1..MaximumPacketSize] :
           packets = [p \in 1..MaxPackets |->
                         [source |-> 0, destination |-> 1, size |-> sizes[p]]]
    /\ queue = EmptyBag
    /\ phase = {}
    /\ net_log = [last |-> NoCallBuffers, inserted |-> {}, heads |-> {},
                  stored |-> <<>>]

NextBuffers ==
    \/ \E packet \in 1..MaxPackets, index \in 0..(MaximumPacketSize - 1),
          virtual_channel \in VCs \cup {None}, r \in VCs :
           BuffersInsert(packet, index, virtual_channel, r)
               /\ UNCHANGED <<islip_vars, updown>>
    \/ \E virtual_channel \in VCs :
           BuffersExtract(virtual_channel) /\ UNCHANGED <<islip_vars, updown>>

SpecBuffers == InitBuffers /\ [][NextBuffers]_vars

\* The phits stored in the buffer of a virtual channel before the last call,
\* in their order of arrival.
StoredBefore(vc) ==
    SelectSeq(net_log.last.stored, LAMBDA x :
        \E i \in 1..Len(net_log.last.before[vc]) :
            <<net_log.last.before[vc][i].packet, net_log.last.before[vc][i].index>> = x)

\* C21: the insertion of a phit that is not a head, has no virtual channel
\* and belongs to a packet whose head was never inserted is fatal; extract
\* of an empty buffer gives an error, no message, and leaves the buffers as
\* they were; extract of a buffer with phits gives the phit of that virtual
\* channel that arrived first and the message AckPhitClear of the channel,
\* and removes that phit only.
C21_BufferOutcomes ==
    /\ (/\ net_log.last.kind = "insert"
        /\ net_log.last.phit.virtual_channel = None
        /\ net_log.last.phit.index # 0
        /\ net_log.last.phit.packet \notin net_log.last.heads)
           => (routers.panicked /\ routers.space.buffers = net_log.last.before)
    /\ (net_log.last.kind = "extract" /\ net_log.last.before[net_log.last.vc] = <<>>)
           => /\ net_log.last.error
              /\ net_log.last.message = NoMessage
              /\ routers.space.buffers = net_log.last.before
    /\ (net_log.last.kind = "extract" /\ net_log.last.before[net_log.last.vc] # <<>>)
           => /\ ~net_log.last.error
              /\ <<net_log.last.phit.packet, net_log.last.phit.index>> =
                     Head(StoredBefore(net_log.last.vc))
              /\ net_log.last.phit.virtual_channel = net_log.last.vc
              /\ net_log.last.message =
                     AckPhitClearFromVirtualChannel(net_log.last.vc)
              /\ \A vc \in VCs :
                     Len(routers.space.buffers[vc]) =
                         Len(net_log.last.before[vc])
                             - (IF vc = net_log.last.vc THEN 1 ELSE 0)

\* While the buffers hold the head of a packet that arrived without virtual
\* channel, a body phit of another packet arrives without virtual channel and
\* before its head: the insertion is fatal.
C21_Witness ==
    /\ routers.panicked
    /\ net_log.last.kind = "insert"
    /\ net_log.last.phit.virtual_channel = None
    /\ net_log.last.phit.index # 0
    /\ net_log.last.phit.packet \notin net_log.last.heads
    /\ DOMAIN routers.space.input_virtual_channel_choices # {}
    /\ \E vc \in VCs : routers.space.buffers[vc] # <<>>

\* An extraction from an empty buffer, and one from a buffer with two phits.
ExtractedFromEmpty ==
    /\ net_log.last.kind = "extract" /\ net_log.last.error
    /\ \E vc \in VCs : routers.space.buffers[vc] # <<>>
ExtractedTheOldest ==
    /\ net_log.last.kind = "extract"
    /\ ~net_log.last.error
    /\ Len(net_log.last.before[net_log.last.vc]) = 2
    /\ Len(routers.space.buffers[net_log.last.vc]) = 1

(***************************************************************************)
(* The network with a routing that may have no candidates: for every head  *)
(* phit the routing answers with the candidates of the dimension-ordered   *)
(* routing, or with no candidate at all, flagged idempotent or not.        *)
(***************************************************************************)

\* RoutingNextCandidates: the answers the routing can give for the phit at
\* the front of the entry e.
RoutingAnswers(R, r, e) ==
    {[candidates |-> RoutingNext(r, TargetRouter(FrontVirtualChannel(R, e[1], e[2]))),
      idempotent |-> TRUE]}
        \cup {[candidates |-> {}, idempotent |-> b] : b \in BOOLEAN}

\* The candidates of an answer that reach the policies with router_allows =
\* Some(true), as requests.
RoutedRequests(R, r, e, candidates) ==
    LET phit == FrontVirtualChannel(R, e[1], e[2]) IN
    {[packet |-> phit.packet, entry_port |-> e[1], entry_vc |-> e[2],
      requested_port |-> c.port, requested_vc |-> c.virtual_channel,
      label |-> c.label] :
        c \in {d \in candidates :
                 /\ R.selected_input[d.port][d.virtual_channel] = NoSelection
                 /\ CanPhitAdvance(R, phit, d.port, d.virtual_channel,
                                   BubbleInUse(R, r, phit, e[1], d.port))
                 /\ (R.allow_request_busy_port \/ ~BusyPort(R, d.port))}}

\* Basic::process with the answers of the routing for the undecided entries:
\* it panics for an answer without candidates that is flagged idempotent,
\* and skips the entry if the answer is not.
ProcessRoutedOutcomes(R0, r, log, routing) ==
    IF R0.last_process_at_cycle = 0
    THEN {[R |-> [R0 EXCEPT !.panicked = TRUE], events |-> EmptyBag, log |-> log]}
    ELSE IF \E e \in DOMAIN routing :
                routing[e].candidates = {} /\ routing[e].idempotent
    THEN {[R |-> [R0 EXCEPT !.last_process_at_cycle = 0, !.panicked = TRUE],
           events |-> EmptyBag, log |-> log]}
    ELSE
      LET R == [R0 EXCEPT !.last_process_at_cycle = 0]
          undecided_channels == Cardinality(UndecidedEntries(R))
      IN UNION {
           {Reschedule(
               OutputPhase([R |-> arbitrated, events |-> EmptyBag,
                            moved_phits |-> 0, log |-> log], r, 0),
               r, undecided_channels, Cardinality(request)) :
              arbitrated \in ArbitrationOutcomes(R, RequestSequence(R, r, request))} :
           request \in SUBSET (UNION {RoutedRequests(R, r, e, routing[e].candidates) :
                                         e \in DOMAIN routing})}

\* Basic::process, served from its Generic event.
ProcessRouted(r) ==
    /\ NobodyPanicked
    /\ NextEvent # NoEvent
    /\ NextEvent.kind = "Generic"
    /\ NextEvent.location.index = r
    /\ \E routing \in [UndecidedEntries(routers[r]) ->
                          UNION {RoutingAnswers(routers[r], r, e) :
                                    e \in UndecidedEntries(routers[r])}] :
         /\ \A e \in DOMAIN routing : routing[e] \in RoutingAnswers(routers[r], r, e)
         /\ \E res \in ProcessRoutedOutcomes(routers[r], r,
                           [net_log EXCEPT !.tx = {}], routing) :
              /\ routers' = [routers EXCEPT ![r] = res.R]
              /\ queue' = Served(queue, NextEvent) (+) res.events
              /\ net_log' = [res.log EXCEPT !.routing = routing]
    /\ UNCHANGED <<servers, packets, phase>>

InitRouted ==
    /\ IdleISLIP
    /\ updown = NoRouting
    /\ routers = [r \in RouterIndices |-> BasicNew(TRUE, FALSE, FALSE)]
    /\ servers = [s \in RouterIndices |-> ServerNew]
    /\ packets = <<>>
    /\ queue = EmptyBag
    /\ phase = {}
    /\ net_log = [tx |-> {}, exits |-> {}, routing |-> <<>>]

\* The traffic comes from the server 0 only.
NextRouted ==
    \/ \E r \in RouterIndices, port \in Ports : Insert(r, port) /\ UNCHANGED <<islip_vars, updown>>
    \/ \E r \in RouterIndices, port \in RingPorts :
           Acknowledge(r, port) /\ UNCHANGED <<islip_vars, updown>>
    \/ \E r \in RouterIndices : ProcessRouted(r) /\ UNCHANGED <<islip_vars, updown>>
    \/ \E s \in RouterIndices : ServerConsume(s) /\ UNCHANGED <<islip_vars, updown>>
    \/ \E s \in RouterIndices : ServerAcknowledge(s) /\ UNCHANGED <<islip_vars, updown>>
    \/ ServerStep(0) /\ UNCHANGED <<islip_vars, updown>>
    \/ AdvanceCycle /\ UNCHANGED <<islip_vars, updown>>

SpecRouted == InitRouted /\ [][NextRouted]_vars

\* The step is a call to process of the router r.
ProcessCalled(r) ==
    /\ NextEvent # NoEvent
    /\ NextEvent.kind = "Generic"
    /\ NextEvent.location.index = r
    /\ routers'[r] # routers[r]

\* The entry e is the input of some selected_input of the router.
SelectedAsInput(R, e) ==
    \E p \in Ports, v \in VCs :
        R.selected_input[p][v] # NoSelection
            /\ R.selected_input[p][v].port = e[1] /\ R.selected_input[p][v].vc = e[2]

\* C22: when the routing has no candidate for a head phit, process aborts if
\* the answer is flagged idempotent; if no answer of the call is, the phit
\* stays at the front of its buffer, its selected_output stays empty, no
\* selected_input gets it, and the router is scheduled for the next cycle.
C22_EmptyRouting ==
    [][\A r \in RouterIndices :
          ProcessCalled(r) =>
              \A e \in DOMAIN net_log'.routing :
                  net_log'.routing[e].candidates = {} =>
                      IF \E f \in DOMAIN net_log'.routing :
                             /\ net_log'.routing[f].candidates = {}
                             /\ net_log'.routing[f].idempotent
                      THEN routers'[r].panicked
                      ELSE /\ ~routers'[r].panicked
                           /\ routers'[r].reception_port_space[e[1]][e[2]] =
                                  routers[r].reception_port_space[e[1]][e[2]]
                           /\ routers'[r].selected_output[e[1]][e[2]] = NoSelection
                           /\ ~SelectedAsInput(routers'[r], e)
                           /\ BagIn(EventGeneric(1, r), queue')
                           /\ routers'[r].next_events # <<>>
                           /\ routers'[r].next_events[Len(routers'[r].next_events)] = 1]_vars

\* A head phit inside the ring got no candidate from a routing that is not
\* idempotent, while a phit of another packet left the router: the head is
\* still at the front of its buffer and the router will wake up.
C22_Witness ==
    \E r \in RouterIndices \ {0} :
        /\ ~routers[r].panicked
        /\ routers[r].last_process_at_cycle = 0
        /\ \E e \in DOMAIN net_log.routing :
               /\ net_log.routing[e].candidates = {}
               /\ ~net_log.routing[e].idempotent
               /\ FrontVirtualChannel(routers[r], e[1], e[2]) # NoPhit
               /\ routers[r].selected_output[e[1]][e[2]] = NoSelection
        /\ BagIn(EventGeneric(1, r), queue)
        /\ \E t \in net_log.tx : t.router = r

(***************************************************************************)
(* measures.rs: the Jain index of a sequence of values.  The values are    *)
(* small natural numbers, on which the sums and products of f64 are exact; *)
(* a quotient is kept as a fraction, or as the NaN or the infinity that    *)
(* the division of f64 gives when the divisor is zero.                     *)
(***************************************************************************)

\* The length of the sequences and the largest value in them.
MaxJainLen == 3
MaxJainValue == 3

Float(num, den) == [kind |-> "number", num |-> num, den |-> den]
NaN == [kind |-> "nan", num |-> 0, den |-> 1]
Infinity == [kind |-> "infinity", num |-> 1, den |-> 0]

\* The division of f64, for a dividend that is not negative.
FloatDivide(a, b) ==
    IF a.kind = "nan" \/ b.kind = "nan" THEN NaN
    ELSE IF a.kind = "infinity" THEN (IF b.kind = "infinity" THEN NaN ELSE Infinity)
    ELSE IF b.kind = "infinity" THEN Float(0, 1)
    ELSE IF b.num = 0 THEN (IF a.num = 0 THEN NaN ELSE Infinity)
    ELSE Float(a.num * b.den, a.den * b.num)

\* The comparisons of f64: every comparison with NaN is false.
FloatLessEq(a, b) ==
    /\ a.kind # "nan" /\ b.kind # "nan"
    /\ \/ b.kind = "infinity"
       \/ a.kind = "number" /\ b.kind = "number" /\ a.num * b.den <= b.num * a.den
FloatEqual(a, b) == FloatLessEq(a, b) /\ FloatLessEq(b, a)

\* jain, the expression after the loop: count*count/count2/n as f64
JainResult(n, count, count2) ==
    FloatDivide(FloatDivide(Float(count * count, 1), Float(count2, 1)), Float(n, 1))

NotComputed == [kind |-> "", num |-> 0, den |-> 1]

\* jain, one round of the loop over the values.
JainLoop ==
    /\ net_log.iter # <<>>
    /\ LET x == Head(net_log.iter)
       IN net_log' = [net_log EXCEPT
              !.iter = Tail(@),
              !.n = @ + 1,
              !.count = @ + x,
              !.count2 = @ + x * x]
    /\ UNCHANGED <<routers, servers, packets, queue, phase>>

\* jain, the end of the loop and the result.
JainReturn ==
    /\ net_log.iter = <<>>
    /\ net_log.result = NotComputed
    /\ net_log' = [net_log EXCEPT
           !.result = JainResult(net_log.n, net_log.count, net_log.count2)]
    /\ UNCHANGED <<routers, servers, packets, queue, phase>>

InitJain ==
    /\ IdleISLIP
    /\ updown = NoRouting
    /\ routers = <<>> /\ servers = <<>> /\ packets = <<>>
    /\ queue = EmptyBag /\ phase = {}
    /\ \E len \in 1..MaxJainLen :
         \E x \in [1..len -> 0..MaxJainValue] :
           net_log = [x |-> x, iter |-> x, n |-> 0, count |-> 0, count2 |-> 0,
                      result |-> NotComputed]

NextJain ==
    \/ JainLoop /\ UNCHANGED <<islip_vars, updown>>
    \/ JainReturn /\ UNCHANGED <<islip_vars, updown>>

SpecJain == InitJain /\ [][NextJain]_vars

JainComputed == net_log.result # NotComputed
AllEqual(x) == \A i, j \in 1..Len(x) : x[i] = x[j]

\* C23: the Jain index of a sequence of n >= 1 values that are not negative,
\* the sequence of zeros included, is between 1/n and 1, and it is 1 if and
\* only if all the values are equal.
C23_JainBounds ==
    JainComputed =>
        /\ FloatLessEq(Float(1, Len(net_log.x)), net_log.result)
        /\ FloatLessEq(net_log.result, Float(1, 1))
        /\ FloatEqual(net_log.result, Float(1, 1)) <=> AllEqual(net_log.x)

\* The same for the sequences with some value that is not zero.
JainBoundsUnlessZeros ==
    (JainComputed /\ \E i \in 1..Len(net_log.x) : net_log.x[i] # 0) =>
        /\ FloatLessEq(Float(1, Len(net_log.x)), net_log.result)
        /\ FloatLessEq(net_log.result, Float(1, 1))
        /\ FloatEqual(net_log.result, Float(1, 1)) <=> AllEqual(net_log.x)

\* The head phit at the front of the entry e of the router r before the step
\* is still there after it.
HeadStays(r, e) ==
    /\ IsBegin(FrontVirtualChannel(routers[r], e[1], e[2]))
    /\ FrontVirtualChannel(routers'[r], e[1], e[2]) =
           FrontVirtualChannel(routers[r], e[1], e[2])

\* C24: a head phit that was undecided when process was called and that has
\* not been transmitted, granted or not in the arbitration of the call, is
\* left without selected_input entry and undecided, so that the next call
\* asks the routing for it again.
C24_Rescue ==
    [][\A r \in RouterIndices :
          ProcessCalled(r) =>
              \A e \in UndecidedEntries(routers[r]) :
                  (HeadStays(r, e) /\ ~routers'[r].panicked) =>
                      /\ ~SelectedAsInput(routers'[r], e)
                      /\ e \in UndecidedEntries(routers'[r])]_vars

\* The part of C24 on selected_input alone.
RescueClearsSelectedInput ==
    [][\A r \in RouterIndices :
          ProcessCalled(r) =>
              \A e \in UndecidedEntries(routers[r]) :
                  (HeadStays(r, e) /\ ~routers'[r].panicked) =>
                      ~SelectedAsInput(routers'[r], e)]_vars

(***************************************************************************)
(* The arbitration of Basic::process alone: the requests of a cycle, in    *)
(* the order in which the shuffles left them, are served one by one.       *)
(***************************************************************************)

\* The number of requests of a cycle.
MaxArbitrated == 3

\* The request of the phit at the front of an input for an output.
PortRequest(entry_port, entry_vc, requested_port, requested_vc) ==
    [packet |-> 1 + entry_port * NumVC + entry_vc,
     entry_port |-> entry_port, entry_vc |-> entry_vc,
     requested_port |-> requested_port, requested_vc |-> requested_vc,
     label |-> 0]

\* The routing phase pushes a request: from an undecided input, for an output
\* whose selected_input is empty.  The shuffles leave the requests of the
\* cycle in any order.
PushRequest(entry_port, entry_vc, requested_port, requested_vc) ==
    /\ ~net_log.arbitrating
    /\ Len(net_log.request) < MaxArbitrated
    /\ routers[0].selected_output[entry_port][entry_vc] = NoSelection
    /\ routers[0].selected_input[requested_port][requested_vc] = NoSelection
    /\ \A i \in 1..Len(net_log.request) :
           net_log.request[i] #
               PortRequest(entry_port, entry_vc, requested_port, requested_vc)
    /\ net_log' = [net_log EXCEPT !.request =
           Append(@, PortRequest(entry_port, entry_vc, requested_port, requested_vc))]
    /\ UNCHANGED <<routers, servers, packets, queue, phase>>

\* The body of the loop over request_it: the next request is served.
ArbitrateRequest ==
    /\ net_log.request # <<>>
    /\ LET q == Head(net_log.request)
       IN IF Commits(routers[0], q)
          THEN /\ routers' = [routers EXCEPT ![0] = Commit(@, q)]
               /\ net_log' = [net_log EXCEPT !.request = Tail(@),
                                             !.granted = @ \cup {q},
                                             !.arbitrating = TRUE]
          ELSE /\ routers' = routers
               /\ net_log' = [net_log EXCEPT !.request = Tail(@),
                                             !.refused = @ \cup {q},
                                             !.arbitrating = TRUE]
    /\ UNCHANGED <<servers, packets, queue, phase>>

\* The packets with a granted output, of a single phit, leave the router.
TailsLeave ==
    /\ net_log.arbitrating
    /\ net_log.request = <<>>
    /\ routers' = [routers EXCEPT
           ![0].selected_input = [p \in Ports |-> [v \in VCs |-> NoSelection]],
           ![0].selected_output = [p \in Ports |-> [v \in VCs |-> NoSelection]]]
    /\ net_log' = [request |-> <<>>, granted |-> {}, refused |-> {},
                   arbitrating |-> FALSE]
    /\ UNCHANGED <<servers, packets, queue, phase>>

InitArbitration ==
    /\ IdleISLIP
    /\ updown = NoRouting
    /\ routers = [r \in {0} |-> BasicNew(TRUE, FALSE, FALSE)]
    /\ servers = <<>> /\ packets = <<>>
    /\ queue = EmptyBag /\ phase = {}
    /\ net_log = [request |-> <<>>, granted |-> {}, refused |-> {},
                  arbitrating |-> FALSE]

NextArbitration ==
    \/ \E entry_port \in Ports, entry_vc \in VCs, requested_port \in Ports,
          requested_vc \in VCs :
           PushRequest(entry_port, entry_vc, requested_port, requested_vc)
               /\ UNCHANGED <<islip_vars, updown>>
    \/ ArbitrateRequest /\ UNCHANGED <<islip_vars, updown>>
    \/ TailsLeave /\ UNCHANGED <<islip_vars, updown>>

SpecArbitration == InitArbitration /\ [][NextArbitration]_vars

\* The request served by the step, and the entries it asks for.
Served1 == Head(net_log.request)
BothEmpty(q) ==
    /\ routers[0].selected_input[q.requested_port][q.requested_vc] = NoSelection
    /\ routers[0].selected_output[q.entry_port][q.entry_vc] = NoSelection

\* C25: the request that is served commits if and only if its selected_input
\* and its selected_output are both empty at that moment; committing sets
\* both to the triple of the request and changes nothing else, and a request
\* that does not commit changes nothing.  So among the requests granted in a
\* cycle no two have the same input, and no two have the same output.
C25_CommitRule ==
    [][(net_log.request # <<>> /\ net_log'.arbitrating
           /\ net_log'.request = Tail(net_log.request)) =>
          /\ IF BothEmpty(Served1)
             THEN /\ routers'[0].selected_input =
                         [routers[0].selected_input EXCEPT
                             ![Served1.requested_port][Served1.requested_vc] =
                                 Selection(Served1.packet, Served1.entry_port,
                                           Served1.entry_vc)]
                  /\ routers'[0].selected_output =
                         [routers[0].selected_output EXCEPT
                             ![Served1.entry_port][Served1.entry_vc] =
                                 Selection(Served1.packet, Served1.requested_port,
                                           Served1.requested_vc)]
                  /\ net_log'.granted = net_log.granted \cup {Served1}
             ELSE /\ routers' = routers
                  /\ net_log'.granted = net_log.granted
          /\ \A q1, q2 \in net_log'.granted :
                 q1 # q2 =>
                     /\ <<q1.entry_port, q1.entry_vc>> # <<q2.entry_port, q2.entry_vc>>
                     /\ <<q1.requested_port, q1.requested_vc>>
                            # <<q2.requested_port, q2.requested_vc>>]_vars

\* In a cycle with three requests, two of them from the same input and two
\* of them for the same output, only the first one was granted.
C25_Witness ==
    /\ net_log.arbitrating
    /\ net_log.request = <<>>
    /\ Cardinality(net_log.granted) = 1
    /\ Cardinality(net_log.refused) = 2
    /\ \E q \in net_log.granted :
           /\ routers[0].selected_input[q.requested_port][q.requested_vc] =
                  Selection(q.packet, q.entry_port, q.entry_vc)
           /\ \E q1, q2 \in net_log.refused :
                  /\ <<q1.entry_port, q1.entry_vc>> = <<q.entry_port, q.entry_vc>>
                  /\ <<q1.requested_port, q1.requested_vc>>
                         # <<q.requested_port, q.requested_vc>>
                  /\ <<q2.requested_port, q2.requested_vc>>
                         = <<q.requested_port, q.requested_vc>>
                  /\ <<q2.entry_port, q2.entry_vc>> # <<q.entry_port, q.entry_vc>>

\* A head phit waits at the front of an input buffer of a router while a
\* virtual channel that the routing admits for it is free and has the credits
\* for a flit.
HeadWaiting(r, p, v) ==
    LET R == routers[r] IN
    /\ R.reception_port_space[p][v] # <<>>
    /\ IsBegin(FrontVirtualChannel(R, p, v))
    /\ \E c \in RoutingNext(r, TargetRouter(FrontVirtualChannel(R, p, v))) :
           /\ R.selected_input[c.port][c.virtual_channel] = NoSelection
           /\ c.port \in RingPorts
                  => R.neighbour_credits[c.port][c.virtual_channel] >= FlitSize

\* C26: the phits that are in the input buffers of the routers eventually
\* leave them, the routing offering always the candidates of the
\* dimension-ordered routing and the neighbours returning the credits of
\* what they take: once the network has nothing left to do, no event
\* scheduled, no server sending and no packet to create, no head phit is
\* left waiting at the front of an input buffer with an admissible output
\* virtual channel free and with credits.
C26_RouterLiveness ==
    Quiescent => \A r \in RouterIndices, p \in Ports, v \in VCs : ~HeadWaiting(r, p, v)

\* C27: the owner of an output virtual channel has it as its committed
\* output: if selected_input[p][v] is (packet, q, w) then selected_output[q][w]
\* is (packet, p, v), in every router and every state.
C27_OwnershipBacked ==
    \A r \in RouterIndices, p \in Ports, v \in VCs :
        LET sel == routers[r].selected_input[p][v] IN
        sel # NoSelection
          => routers[r].selected_output[sel.port][sel.vc] = Selection(sel.packet, p, v)

\* A packet of more than one phit owns an output virtual channel after its
\* head has left through it and while its tail waits in the input buffer.
C27_Witness ==
    \E r \in RouterIndices, p \in Ports, v \in VCs :
        LET sel == routers[r].selected_input[p][v] IN
        /\ sel # NoSelection
        /\ routers[r].selected_output[sel.port][sel.vc] = Selection(sel.packet, p, v)
        /\ FrontVirtualChannel(routers[r], sel.port, sel.vc) # NoPhit
        /\ ~IsBegin(FrontVirtualChannel(routers[r], sel.port, sel.vc))
        /\ \E t \in net_log.tx : t.router = r /\ t.port = p /\ t.vc = v
                                   /\ t.phit.packet = sel.packet

(***************************************************************************)
(* The ring with allow_request_busy_port: a head may ask for a virtual     *)
(* channel of an output port that has a packet in transit.                 *)
(***************************************************************************)

InitBusyPorts ==
    /\ IdleISLIP
    /\ routers = [r \in RouterIndices |-> BasicNew(TRUE, TRUE, FALSE)]
    /\ servers = [s \in RouterIndices |-> ServerNew]
    /\ packets = <<>>
    /\ queue = EmptyBag
    /\ phase = {}
    /\ net_log = [tx |-> {}, exits |-> {}]
    /\ updown = NoRouting

SpecBusyPorts == InitBusyPorts /\ [][NextNetwork]_vars

\* cand_in_transit: the virtual channels of the output port whose input has
\* at its front a phit that is not a head and that can advance.
InTransit(R, r, exit_port) ==
    {vc \in Advancing(R, r, exit_port) : ~IsBegin(SelectedFront(R, exit_port, vc))}

\* The phits that the last call of process sent through a port of a router.
SentThrough(log, r, exit_port) ==
    {t \in log.tx : t.router = r /\ t.port = exit_port}

TrackLast(log, r) ==
    [log EXCEPT !.last[r] =
        [p \in Ports |-> [v \in VCs |->
            LET sent == {t \in SentThrough(log, r, p) : t.vc = v}
            IN IF sent = {} THEN @[p][v]
               ELSE LET t == CHOOSE x \in sent : TRUE
                    IN IF IsEnd(t.phit) THEN NoPhit ELSE t.phit]]]

\* Basic::process, served from its Generic event, with the history.
ProcessTracked(r) ==
    /\ NobodyPanicked
    /\ NextEvent # NoEvent
    /\ NextEvent.kind = "Generic"
    /\ NextEvent.location.index = r
    /\ \E res \in ProcessOutcomes(routers[r], r, [net_log EXCEPT !.tx = {}]) :
         /\ routers' = [routers EXCEPT ![r] = res.R]
         /\ queue' = Served(queue, NextEvent) (+) res.events
         /\ net_log' = TrackLast(res.log, r)
    /\ UNCHANGED <<servers, packets, phase>>

InitTracked ==
    /\ IdleISLIP
    /\ routers = [r \in RouterIndices |-> BasicNew(TRUE, TRUE, FALSE)]
    /\ servers = [s \in RouterIndices |-> ServerNew]
    /\ packets = <<>>
    /\ queue = EmptyBag
    /\ phase = {}
    /\ net_log = [tx |-> {}, exits |-> {},
                  last |-> [r \in RouterIndices |->
                               [p \in Ports |-> [v \in VCs |-> NoPhit]]]]
    /\ updown = NoRouting

NextTracked ==
    \/ \E r \in RouterIndices, port \in Ports : Insert(r, port) /\ UNCHANGED <<islip_vars, updown>>
    \/ \E r \in RouterIndices, port \in RingPorts :
           Acknowledge(r, port) /\ UNCHANGED <<islip_vars, updown>>
    \/ \E r \in RouterIndices : ProcessTracked(r) /\ UNCHANGED <<islip_vars, updown>>
    \/ \E s \in RouterIndices : ServerConsume(s) /\ UNCHANGED <<islip_vars, updown>>
    \/ \E s \in RouterIndices : ServerAcknowledge(s) /\ UNCHANGED <<islip_vars, updown>>
    \/ \E s \in RouterIndices : ServerStep(s) /\ UNCHANGED <<islip_vars, updown>>
    \/ AdvanceCycle /\ UNCHANGED <<islip_vars, updown>>

SpecTracked == InitTracked /\ [][NextTracked]_vars

\* The phit follows the last one sent through the output virtual channel:
\* the head of a packet when no packet is open, the next phit of the open
\* packet otherwise.
Follows(last, phit) ==
    IF last = NoPhit THEN IsBegin(phit)
    ELSE phit.packet = last.packet /\ phit.index = last.index + 1

\* C29: the phits sent through an output virtual channel form whole packets
\* in the order of their indices, no phit of another packet going between
\* the head and the tail of a packet, and while a packet is open the output
\* virtual channel is owned by the input of that packet.
C29_NoInterleaving ==
    [][\A r \in RouterIndices :
          ProcessCalled(r) =>
              /\ \A t \in net_log'.tx : Follows(net_log.last[t.router][t.port][t.vc], t.phit)
              /\ \A p \in Ports, v \in VCs :
                    net_log'.last[r][p][v] # NoPhit
                      => routers'[r].selected_input[p][v].packet
                           = net_log'.last[r][p][v].packet]_vars

\* A packet is open on a virtual channel of an output port, its head sent
\* and its tail waiting, and the head of another packet that goes through
\* the same port waits at the front of another input buffer.
C29_Witness ==
    \E r \in RouterIndices, p \in Ports, v \in VCs, e \in Ports \X VCs :
        LET last == net_log.last[r][p][v]
            phit == FrontVirtualChannel(routers[r], e[1], e[2])
        IN /\ last # NoPhit
           /\ phit # NoPhit
           /\ IsBegin(phit)
           /\ phit.packet # last.packet
           /\ \E c \in RoutingNext(r, TargetRouter(phit)) : c.port = p

\* The virtual channels of an output port granted to a head in this call of
\* process: the output of their input was undecided and is decided now.
GrantedNow(r, exit_port) ==
    {w \in VCs :
        \E e \in Ports \X VCs :
            /\ routers[r].selected_output[e[1]][e[2]] = NoSelection
            /\ routers'[r].selected_output[e[1]][e[2]] # NoSelection
            /\ routers'[r].selected_output[e[1]][e[2]].port = exit_port
            /\ routers'[r].selected_output[e[1]][e[2]].vc = w}

\* The candidates that the output port had in this call of process, as seen
\* from outside: the phits in transit that can advance or, without them, the
\* heads granted in the call, all of which can advance.
CandSeen(r, exit_port) ==
    IF InTransit(routers[r], r, exit_port) # {}
    THEN InTransit(routers[r], r, exit_port)
    ELSE GrantedNow(r, exit_port)
           \cup {t.vc : t \in SentThrough(net_log', r, exit_port)}

\* In a call of process an output port sends at most one phit, sends one
\* when it has candidates, and sends through the candidate virtual channel
\* closest to its token, going upwards.
TokenChoice(r, exit_port) ==
    /\ Cardinality(SentThrough(net_log', r, exit_port)) <= 1
    /\ CandSeen(r, exit_port) # {} => SentThrough(net_log', r, exit_port) # {}
    /\ \A t \in SentThrough(net_log', r, exit_port), w \in CandSeen(r, exit_port) :
           TokenDistance(routers[r], exit_port, t.vc)
              <= TokenDistance(routers[r], exit_port, w)

\* C30: the token arbiter: each output port sends at most one phit in a
\* cycle, through the candidate virtual channel with the least
\* (vc - token) mod nvc; the token is left at the virtual channel that has
\* sent, and one beyond it, modulo nvc, when the phit sent is a tail.
C30_TokenArbiter ==
    [][\A r \in RouterIndices, exit_port \in Ports :
          (ProcessCalled(r) /\ ~routers'[r].panicked) =>
              /\ TokenChoice(r, exit_port)
              /\ \A t \in SentThrough(net_log', r, exit_port) :
                    routers'[r].port_token[exit_port] =
                        IF IsEnd(t.phit) THEN (t.vc + 1) % NumVC ELSE t.vc]_vars

\* C30 as it is stated: when the phit sent is a tail the token of the port
\* is one more, modulo nvc, than the token the port had.
C30_AsStated ==
    [][\A r \in RouterIndices, exit_port \in Ports :
          (ProcessCalled(r) /\ ~routers'[r].panicked) =>
              /\ TokenChoice(r, exit_port)
              /\ \A t \in SentThrough(net_log', r, exit_port) :
                    IsEnd(t.phit) =>
                        routers'[r].port_token[exit_port] =
                            (routers[r].port_token[exit_port] + 1) % NumVC]_vars

\* A port has sent a tail through a virtual channel that its token was not
\* pointing at, and the token is one beyond that virtual channel.
C30_Witness ==
    \E t \in net_log.tx :
        /\ IsEnd(t.phit)
        /\ routers[t.router].port_token[t.port] = (t.vc + 1) % NumVC
        /\ routers[t.router].port_token[t.port] # t.vc
        /\ t.vc # 0

\* A port had the heads of two packets as candidates and sent the one at
\* its token; the other keeps the output it was granted.
TwoCandidates ==
    \E t \in net_log.tx, e \in Ports \X VCs :
        LET out == routers[t.router].selected_output[e[1]][e[2]]
            phit == FrontVirtualChannel(routers[t.router], e[1], e[2])
        IN /\ IsBegin(t.phit)
           /\ out # NoSelection
           /\ out.port = t.port
           /\ out.vc # t.vc
           /\ phit # NoPhit
           /\ IsBegin(phit)
           /\ phit.packet # t.phit.packet

(***************************************************************************)
(* The order of the arbitration of Basic::process: the requests of a cycle *)
(* are split by label and by origin, every part is shuffled, and they are  *)
(* served in that order.                                                   *)
(***************************************************************************)

\* Requests of a cycle and largest label of a candidate.
MaxOrdered == 3
MaxLabel == 1

\* A request with the label of its candidate.
LabelledRequest(entry_port, entry_vc, label) ==
    [PortRequest(entry_port, entry_vc, (entry_port + 1) % (ServerPort + 1), entry_vc)
        EXCEPT !.label = label]

\* The routing phase pushes a request.
PushLabelled(entry_port, entry_vc, label) ==
    /\ ~net_log.arbitrating
    /\ Cardinality(net_log.request) < MaxOrdered
    /\ LabelledRequest(entry_port, entry_vc, label) \notin net_log.request
    /\ net_log' = [net_log EXCEPT
           !.request = @ \cup {LabelledRequest(entry_port, entry_vc, label)}]
    /\ UNCHANGED <<routers, servers, packets, queue, phase>>

\* request_sequence is built from the requests of the cycle.
SplitRequests ==
    /\ ~net_log.arbitrating
    /\ net_log.request # {}
    /\ net_log' = [net_log EXCEPT
           !.sequence = RequestSequence(routers[0], 0, net_log.request),
           !.arbitrating = TRUE]
    /\ UNCHANGED <<routers, servers, packets, queue, phase>>

\* The subsequences left, without the empty ones at their front.
RECURSIVE Pending(_)
Pending(sequence) ==
    IF sequence = <<>> THEN <<>>
    ELSE IF Head(sequence) = {} THEN Pending(Tail(sequence))
    ELSE sequence

\* request_it gives the next request: any of the first subsequence, for the
\* shuffle leaves them in any order.  It commits if it can.
ServeShuffled ==
    /\ net_log.arbitrating
    /\ Pending(net_log.sequence) # <<>>
    /\ \E q \in Head(Pending(net_log.sequence)) :
         /\ net_log' = [net_log EXCEPT
                !.sequence = <<Head(Pending(net_log.sequence)) \ {q}>>
                                \o Tail(Pending(net_log.sequence)),
                !.order = Append(@, q)]
         /\ routers' = [routers EXCEPT
                ![0] = IF Commits(@, q) THEN Commit(@, q) ELSE @]
    /\ UNCHANGED <<servers, packets, queue, phase>>

InitOrder ==
    /\ IdleISLIP
    /\ updown = NoRouting
    /\ \E intransit_priority \in BOOLEAN, output_prioritize_lowest_label \in BOOLEAN :
         routers = [r \in {0} |->
                      [BasicNew(TRUE, FALSE, intransit_priority)
                          EXCEPT !.output_prioritize_lowest_label =
                                     output_prioritize_lowest_label]]
    /\ servers = <<>> /\ packets = <<>>
    /\ queue = EmptyBag /\ phase = {}
    /\ net_log = [request |-> {}, sequence |-> <<>>, order |-> <<>>,
                  arbitrating |-> FALSE]

NextOrder ==
    \/ \E entry_port \in Ports, entry_vc \in VCs, label \in 0..MaxLabel :
           PushLabelled(entry_port, entry_vc, label) /\ UNCHANGED <<islip_vars, updown>>
    \/ SplitRequests /\ UNCHANGED <<islip_vars, updown>>
    \/ ServeShuffled /\ UNCHANGED <<islip_vars, updown>>

SpecOrder == InitOrder /\ [][NextOrder]_vars

\* The request comes from a server.
IsInjection(q) == Neighbour(0, q.entry_port).kind # "RouterPort"

\* C31: whatever the shuffles, with output_prioritize_lowest_label the
\* requests of a lower label are served before those of a higher label, and
\* with intransit_priority, inside a subsequence, those that enter from a
\* router are served before those that enter from a server.
C31_ArbitrationOrder ==
    \A i \in 1..Len(net_log.order), j \in 1..Len(net_log.order) :
        i < j =>
            /\ routers[0].output_prioritize_lowest_label
                 => net_log.order[i].label <= net_log.order[j].label
            /\ (/\ routers[0].intransit_priority
                /\ routers[0].output_prioritize_lowest_label
                     => net_log.order[i].label = net_log.order[j].label)
                 => ~(IsInjection(net_log.order[i]) /\ ~IsInjection(net_log.order[j]))

\* With both options, three requests have been served: one of a server and
\* one of a router with the same label, and one with another label.
C31_Witness ==
    /\ routers[0].output_prioritize_lowest_label
    /\ routers[0].intransit_priority
    /\ Len(net_log.order) = MaxOrdered
    /\ \E i \in 1..Len(net_log.order), j \in 1..Len(net_log.order),
          k \in 1..Len(net_log.order) :
           /\ net_log.order[i].label = net_log.order[j].label
           /\ ~IsInjection(net_log.order[i])
           /\ IsInjection(net_log.order[j])
           /\ net_log.order[k].label # net_log.order[i].label

\* The pending wake-ups of a router, soonest last.
StrictlyDecreasing(next_events) ==
    \A i \in 1..Len(next_events), j \in 1..Len(next_events) :
        i < j => next_events[i] > next_events[j]

\* C32: the events of a cycle being served the Begin ones first, a router
\* never has two Generic events in the queue for the same cycle, its stack
\* of pending wake-ups is strictly decreasing from bottom to top, and
\* process is never called in a cycle in which it was called already.
C32_SingleInvocation ==
    \A r \in RouterIndices :
        /\ \A ev \in BagToSet(queue) :
               (ev.kind = "Generic" /\ ev.location.index = r)
                   => /\ CopiesIn(ev, queue) = 1
                      /\ ev.at \in Range(routers[r].next_events)
        /\ StrictlyDecreasing(routers[r].next_events)
        /\ WakePending(r) => routers[r].last_process_at_cycle # 0
        /\ routers[r].last_process_at_cycle = 0 => ~routers[r].panicked

\* A router that processed in the cycle before and asked to be woken up has
\* received phits by two of its ports since; it has a single wake-up, to be
\* served now.
C32_Witness ==
    \E r \in RouterIndices :
        /\ routers[r].last_process_at_cycle = 1
        /\ routers[r].next_events = <<0>>
        /\ NextEvent = EventGeneric(0, r)
        /\ \E p \in Ports, q \in Ports :
              /\ p # q
              /\ \E v \in VCs : routers[r].reception_port_space[p][v] # <<>>
              /\ \E v \in VCs : routers[r].reception_port_space[q][v] # <<>>

\* The clients and the resources matched before iteration k of the last
\* allocation.
MatchedBefore(k) == {gr[i] : i \in {j \in 1..Len(gr) : gr[j].iter < k}}

\* The request has its client and its resource unmatched before iteration k.
BothUnmatched(request, k) ==
    \A g \in MatchedBefore(k) : g.client # request[1] /\ g.resource # request[2]

\* C33: the matches of an iteration are kept by the later ones; an
\* iteration before which some request has its client and its resource
\* unmatched adds a match; and with num_iterations >= min(num_clients,
\* num_resources) no request is left with both unmatched.
C33_MaximalMatching ==
    /\ \A i \in 1..Len(gr), j \in 1..Len(gr) :
           i < j => /\ gr[i].client # gr[j].client
                    /\ gr[i].resource # gr[j].resource
                    /\ gr[i].iter <= gr[j].iter
    /\ \A i \in 1..Len(gr) :
           /\ islip.in_match[gr[i].client] = gr[i].resource
           /\ islip.out_match[gr[i].resource] = gr[i].client
    /\ \A k \in 0..(islip.num_iterations - 1) :
           (\E request \in islip_log.requested : BothUnmatched(request, k))
               => \E i \in 1..Len(gr) : gr[i].iter = k
    /\ islip.num_iterations >= Min(islip.num_clients, islip.num_resources)
           => \A request \in islip_log.requested :
                  ~BothUnmatched(request, islip.num_iterations)

\* An allocation has made a match in its first iteration and another one in
\* its second, and no request is left with both sides unmatched.
C33_Witness ==
    /\ \E i \in 1..Len(gr) : gr[i].iter = 0
    /\ \E i \in 1..Len(gr) : gr[i].iter = 1
    /\ Cardinality(islip_log.requested) >= 3
    /\ \A request \in islip_log.requested :
           ~BothUnmatched(request, islip.num_iterations)

\* The distance to the root of a router, and whether the table has a path
\* downwards from it to the target of the packet.
DistanceToRoot(router) == updown.routing.distance_to_root[router]
DownDefined(router) == updown.routing.down_distances[router][updown.target] # None

\* C34: without branch crossings, a hop taken where the down distance to the
\* target is not defined goes to a router closer to the root, a hop taken
\* where it is defined goes to a router farther from the root and with the
\* down distance defined: after a hop downwards there is no hop upwards.
C34_UpThenDown ==
    [][(Hop /\ NoBranchCrossings) =>
          IF DownDefined(updown.current)
          THEN /\ DistanceToRoot(updown'.current) > DistanceToRoot(updown.current)
               /\ DownDefined(updown'.current)
          ELSE DistanceToRoot(updown'.current) < DistanceToRoot(updown.current)]_vars

\* A packet that went upwards, its source having no path downwards to the
\* target, is now farther from the root than its source, with hops to make.
C34_Witness ==
    /\ Travelling /\ NoBranchCrossings
    /\ updown.current # updown.target
    /\ ~DownDefined(updown.source)
    /\ DownDefined(updown.current)
    /\ updown.hops >= 2
    /\ DistanceToRoot(updown.current) >= DistanceToRoot(updown.source)

(***************************************************************************)
(* UpDownDerouting: a packet may make up to allowed_updowns up/down        *)
(* segments, two hops each.  The topology is an input of the routing: a    *)
(* connected graph of routers with one server each, all of its links of    *)
(* class 0, and the routing has a single stage.                            *)
(***************************************************************************)

\* The largest allowed_updowns of a configuration.
MaxUpDowns == 2

\* The table of virtual channels when none is configured: one virtual
\* channel for each up/down segment.
DefaultVirtualChannels(allowed_updowns) == [i \in 1..allowed_updowns |-> <<i - 1>>]

\* The table of a configuration that gives none.
NoTable == <<>>

\* UpDownDerouting::new
UpDownDeroutingNew(allowed_updowns, virtual_channels) ==
    [allowed_updowns |-> allowed_updowns,
     virtual_channels |-> IF virtual_channels = NoTable
                          THEN DefaultVirtualChannels(allowed_updowns)
                          ELSE virtual_channels,
     stages |-> 1]

\* The tables a configuration can give: none, or the virtual channels in the
\* opposite order.
ConfiguredTables(allowed_updowns) ==
    {NoTable, [i \in 1..allowed_updowns |-> <<allowed_updowns - i>>]}

\* Topology::distance: the hops of a shortest path between two routers.
TopologyDistance(topology, a, b) ==
    CHOOSE k \in 0..(UpDownRouters - 1) :
        /\ b \in Ball(topology, {a}, k)
        /\ k > 0 => b \notin Ball(topology, {a}, k - 1)

\* The link class of every link of the topology.
LinkClass == 0

\* The reasons a packet can stop for.
NoAbort == ""
NotEnoughHops == "Not enough hops available to reach target"
BadDeroute == "Bad deroute :("
Underflow == "attempt to subtract with overflow"

\* UpDownDerouting::initialize_routing_info
InitializeRoutingInfo(routing, current_router) ==
    [hops |-> 0,
     selections |-> <<routing.allowed_updowns>>,
     visited_routers |-> <<current_router>>,
     auxiliar |-> [i \in 1..routing.stages |-> 0]]

\* A variant of the test of a neighbour that lets it be as far from the
\* target as the hops available.
DeroutingNeighbourOneMore(available_hops, new_distance, neighbour_router_index, target_router, previous_router) ==
    IF new_distance = available_hops THEN "matches"
    ELSE IF /\ new_distance < available_hops
            /\ neighbour_router_index # target_router
            /\ neighbour_router_index # previous_router
    THEN "candidates"
    ELSE "neither"

\* UpDownDerouting::next, the test of a neighbour router: it goes to r when
\* it is exactly as far from the target as the hops left after the hop, and
\* to the candidates kept apart when it is closer and is neither the target
\* nor previous_router.
DeroutingNeighbour(available_hops, new_distance, neighbour_router_index, target_router, previous_router) ==
    IF new_distance = available_hops - 1 THEN "matches"
    ELSE IF /\ new_distance < available_hops - 1
            /\ neighbour_router_index # target_router
            /\ neighbour_router_index # previous_router
    THEN "candidates"
    ELSE "neither"

\* n copies of a candidate, as (0..num_virtual_channels).map(|_vc| ...) gives.
Copies(n, x) == [k \in 1..n |-> x]

\* UpDownDerouting::next, the loop over the ports from port i on: the
\* candidates of r and the candidates kept apart.
RECURSIVE DeroutingLoop(_, _, _, _, _, _, _, _)
DeroutingLoop(routing_info, topology, current_router, target_router, num_virtual_channels, available_hops, i, acc) ==
    IF i >= TopologyPorts(topology, current_router) THEN acc
    ELSE
      LET location == TopologyNeighbour(topology, current_router, i)
          previous_router ==
              routing_info.visited_routers[Len(routing_info.visited_routers)]
          vc_index == (available_hops + 1) \div 2 - 1
          kind == IF location.kind = "RouterPort"
                  THEN DeroutingNeighbour(available_hops,
                           TopologyDistance(topology, location.index, target_router),
                           location.index, target_router, previous_router)
                  ELSE "neither"
          entries == Copies(num_virtual_channels, CandidateEgress(i, vc_index, 0, None))
      IN DeroutingLoop(routing_info, topology, current_router, target_router,
                       num_virtual_channels, available_hops, i + 1,
                       [r |-> IF kind = "matches" THEN acc.r \o entries ELSE acc.r,
                        candidates |-> IF kind = "candidates"
                                       THEN acc.candidates \o entries
                                       ELSE acc.candidates,
                        matches |-> acc.matches \/ kind = "matches"])

\* UpDownDerouting::next: the candidates, in the order of the code, or the
\* reason of the abort.
UpDownDeroutingNext(routing, routing_info, topology, current_router, target_router, target_server, num_virtual_channels) ==
    LET distance == TopologyDistance(topology, current_router, target_router)
        available_hops == routing.allowed_updowns * 2 - routing_info.hops
    IN IF routing.allowed_updowns * 2 < routing_info.hops
       THEN [abort |-> Underflow, candidates |-> <<>>]
       ELSE IF distance = 0
       THEN LET i == CHOOSE i \in 0..(TopologyPorts(topology, current_router) - 1) :
                         /\ TopologyNeighbour(topology, current_router, i) =
                                LocationServerPort(target_server)
                         /\ \A j \in 0..(i - 1) :
                                TopologyNeighbour(topology, current_router, j) #
                                    LocationServerPort(target_server)
            IN [abort |-> NoAbort,
                candidates |-> [k \in 1..num_virtual_channels |->
                                   CandidateEgress(i, k - 1, 0, None)]]
       ELSE IF available_hops = 0 \/ available_hops < distance
       THEN [abort |-> NotEnoughHops, candidates |-> <<>>]
       ELSE LET done == DeroutingLoop(routing_info, topology, current_router,
                                      target_router, num_virtual_channels,
                                      available_hops, 0,
                                      [r |-> <<>>, candidates |-> <<>>,
                                       matches |-> FALSE])
            IN [abort |-> NoAbort,
                candidates |-> IF done.matches THEN done.r
                               ELSE done.r \o done.candidates]

\* UpDownDerouting::update_routing_info, called when the packet arrives at
\* current_router by current_port.
UpdateRoutingInfo(routing_info, topology, current_router, current_port, target_router) ==
    IF TopologyNeighbour(topology, current_router, current_port).kind # "RouterPort"
    THEN [abort |-> NoAbort, info |-> routing_info]
    ELSE
      LET saltos == routing_info.auxiliar
          last_stage == saltos[LinkClass + 1] # 0 /\ LinkClass = 0
                           /\ current_router # target_router
      IN IF last_stage /\ routing_info.selections[1] = 0
         THEN [abort |-> BadDeroute, info |-> routing_info]
         ELSE [abort |-> NoAbort,
               info |-> [routing_info EXCEPT
                   !.auxiliar[LinkClass + 1] = IF saltos[LinkClass + 1] # 0 THEN 0 ELSE 1,
                   !.selections[1] = IF last_stage THEN @ - 1 ELSE @,
                   !.visited_routers = Append(@, current_router)]]

\* The port of a router towards a neighbour router.
PortTowards(topology, router, neighbour) ==
    CHOOSE i \in 0..(Len(topology[router]) - 1) : topology[router][i + 1] = neighbour

\* The answer of next for the packet at its current router.
DeroutingAnswer ==
    UpDownDeroutingNext(updown.routing, updown.info, updown.topology, updown.current,
                        updown.target, updown.target, NumVC)

\* A packet is generated at the server of source for the server of target.
GenerateDerouted(source, target) ==
    /\ updown.source = None
    /\ updown' = [updown EXCEPT
           !.source = source, !.target = target, !.current = source,
           !.info = InitializeRoutingInfo(updown.routing, source)]

\* The packet asks for its candidates, commits to one of them and crosses
\* the link; the engine counts the hop and the routing updates its
\* information at the router of arrival.
HopDerouted ==
    /\ updown.current # None
    /\ updown.current # updown.target
    /\ updown.abort = NoAbort
    /\ IF DeroutingAnswer.abort # NoAbort
       THEN updown' = [updown EXCEPT !.abort = DeroutingAnswer.abort]
       ELSE \E k \in 1..Len(DeroutingAnswer.candidates) :
              LET next == TopologyNeighbour(updown.topology, updown.current,
                              DeroutingAnswer.candidates[k].port).index
                  updated == UpdateRoutingInfo(
                                 [updown.info EXCEPT !.hops = @ + 1],
                                 updown.topology, next,
                                 PortTowards(updown.topology, next, updown.current),
                                 updown.target)
              IN updown' = [updown EXCEPT
                     !.current = next,
                     !.previous = updown.current,
                     !.info = updated.info,
                     !.abort = updated.abort]

\* At the target router the packet leaves through the port of its server.
ConsumeDerouted ==
    /\ updown.current # None
    /\ updown.current = updown.target
    /\ updown.abort = NoAbort
    /\ DeroutingAnswer.abort = NoAbort
    /\ \E k \in 1..Len(DeroutingAnswer.candidates) :
           /\ TopologyNeighbour(updown.topology, updown.current,
                                DeroutingAnswer.candidates[k].port) =
                  LocationServerPort(updown.target)
           /\ updown' = [updown EXCEPT !.current = None]

InitDerouting ==
    /\ IdleISLIP
    /\ IdleNetwork
    /\ \E topology \in Topologies, allowed_updowns \in 1..MaxUpDowns :
         \E virtual_channels \in ConfiguredTables(allowed_updowns) :
           updown = [routing |-> UpDownDeroutingNew(allowed_updowns, virtual_channels),
                     topology |-> topology,
                     source |-> None, target |-> None, current |-> None,
                     previous |-> None,
                     info |-> InitializeRoutingInfo(
                                  UpDownDeroutingNew(allowed_updowns, virtual_channels), 0),
                     abort |-> NoAbort]

NextDerouting ==
    \/ \E source \in UpDownIndices, target \in UpDownIndices :
           GenerateDerouted(source, target) /\ UNCHANGED <<islip_vars, net_vars>>
    \/ HopDerouted /\ UNCHANGED <<islip_vars, net_vars>>
    \/ ConsumeDerouted /\ UNCHANGED <<islip_vars, net_vars>>

SpecDerouting == InitDerouting /\ [][NextDerouting]_vars

\* The packet is at a router other than its target and next answers.
Routed ==
    /\ updown.current # None
    /\ updown.current # updown.target
    /\ updown.abort = NoAbort
    /\ DeroutingAnswer.abort = NoAbort

AvailableHops == updown.routing.allowed_updowns * 2 - updown.info.hops

\* The neighbour routers that next offers a port to.
Offered ==
    {TopologyNeighbour(updown.topology, updown.current,
                       DeroutingAnswer.candidates[k].port).index :
        k \in 1..Len(DeroutingAnswer.candidates)}

\* C35: at a router other than the target a port towards a neighbour router
\* is offered if and only if the neighbour is at most available_hops - 1
\* hops away from the target.
C35_DeroutingAdmissibility ==
    Routed =>
        \A n \in Range(updown.topology[updown.current]) :
            n \in Offered
              <=> TopologyDistance(updown.topology, n, updown.target)
                     <= AvailableHops - 1

\* The part of C35 that the code keeps: the neighbours offered are within
\* the budget.
OfferedWithinBudget ==
    Routed =>
        \A n \in Offered :
            TopologyDistance(updown.topology, n, updown.target) <= AvailableHops - 1

\* The packet was generated with its target within the budget of hops.
WithinBudgetAtSource ==
    /\ updown.source # None
    /\ TopologyDistance(updown.topology, updown.source, updown.target)
           <= 2 * updown.routing.allowed_updowns

\* C36: when the target is at most 2 * allowed_updowns hops away from the
\* source, at every router the packet reaches the hops left are at least
\* the distance to the target: the subtraction does not underflow, 'Not
\* enough hops available to reach target' is never raised and the packet
\* makes at most 2 * allowed_updowns hops.
C36_DeroutingBudget ==
    WithinBudgetAtSource =>
        /\ updown.abort \notin {NotEnoughHops, Underflow}
        /\ updown.info.hops <= 2 * updown.routing.allowed_updowns
        /\ updown.current # None =>
               AvailableHops >= TopologyDistance(updown.topology, updown.current,
                                                 updown.target)

\* A packet that used its whole budget of MaxUpDowns up/down segments and is
\* at its target router, other than its source.
C36_Witness ==
    /\ WithinBudgetAtSource
    /\ updown.routing.allowed_updowns = MaxUpDowns
    /\ updown.info.hops = 2 * MaxUpDowns
    /\ updown.current = updown.target
    /\ updown.source # updown.target
    /\ updown.abort = NoAbort

\* The entry of the table of virtual channels for the up/down segments that
\* the packet has left at its current router.
TableEntry ==
    updown.routing.virtual_channels[(AvailableHops + 1) \div 2]

\* C37: the virtual channel of every candidate towards a router is one of
\* the entry of the configured table of virtual channels for the up/down
\* segments the packet has left.
C37_TableVirtualChannels ==
    Routed =>
        \A k \in 1..Len(DeroutingAnswer.candidates) :
            DeroutingAnswer.candidates[k].virtual_channel \in Range(TableEntry)

\* What the code does: the virtual channel of every candidate towards a
\* router is the number of up/down segments left minus one, whatever the
\* table.
VirtualChannelFromBudget ==
    Routed =>
        \A k \in 1..Len(DeroutingAnswer.candidates) :
            DeroutingAnswer.candidates[k].virtual_channel =
                (AvailableHops + 1) \div 2 - 1

\* The packet has arrived at its current router from another router.
Arrived == Routed /\ updown.previous # None

\* C38: next never offers the port that leads back to the router the packet
\* has just come from.
C38_NoBackTracking ==
    Arrived => updown.previous \notin Offered

\* What the code keeps: after an arrival the last of visited_routers is the
\* current router itself, and that is the router the code leaves out.
LastVisitedIsCurrent ==
    Arrived =>
        updown.info.visited_routers[Len(updown.info.visited_routers)] = updown.current

(***************************************************************************)
(* The flow control from an oblivious emitter with buffers large enough    *)
(* for the acknowledgements to let the server go on: a server with a       *)
(* StatusAtServer sends packets to the AgnosticParallelBuffers of a port   *)
(* through a link of delay 1.                                              *)
(***************************************************************************)

\* The size of each buffer, the size_to_send of the server, which is also
\* the largest size of a packet, and the packets of a run.
SoundBufferSize == 5
SoundSizeToSend == 3
SoundPackets == 4

\* The delay of the link, in cycles.
SoundLinkDelay == 1

\* TransmissionFromOblivious::new_status_at_emissor, with the progress of
\* the server in the packet it is sending (0: none).
StatusAtServerNew(buffer_size, size_to_send) ==
    [available_size |-> buffer_size, size_to_send |-> size_to_send,
     sending |-> 0, next_index |-> 0, underflow |-> FALSE]

\* TransmissionFromOblivious::new_space_at_receptor
AgnosticParallelBuffersNew(buffer_size) ==
    [buffers |-> [v \in VCs |-> <<>>], buffer_size |-> buffer_size,
     currently_selected |-> 0, panicked |-> FALSE]

\* StatusAtServer::notify_outcoming_phit; the subtraction of an unsigned 0
\* is recorded.
StatusAtServerNotifyOutcomingPhit(S) ==
    IF S.available_size = 0 THEN [S EXCEPT !.underflow = TRUE]
    ELSE [S EXCEPT !.available_size = @ - 1]

\* The largest of the free spaces of the buffers.
AvailableSize(A) ==
    LET sizes == {A.buffer_size - Len(A.buffers[v]) : v \in VCs}
    IN CHOOSE a \in sizes : \A b \in sizes : a >= b

\* AgnosticParallelBuffers::insert: the buffers with room for the packet of
\* a head.
Good(A, size) == {v \in VCs : A.buffer_size - Len(A.buffers[v]) >= size}

\* A variant of the message of an extraction that guarantees all the space
\* that is free at the extraction.
AgnosticExtractMessageUncorrected(A) == AckFixAvailableSize(AvailableSize(A))

\* AgnosticParallelBuffers::extract: the message, for the buffers as they are
\* after the pop.
AgnosticExtractMessage(A) ==
    AckFixAvailableSize(IF AvailableSize(A) >= 1
                        THEN Max(AvailableSize(A) - 2, 0) ELSE 0)

\* The server sends the next phit of its packet, or the head of a new one
\* when StatusAtServer::can_transmit allows it: at most a phit each cycle.
SoundSend ==
    /\ ~routers[0].panicked
    /\ <<"send", 0>> \notin phase
    /\ \E size \in 1..SoundSizeToSend :
         LET new == servers[0].sending = 0
             packet == IF new THEN Len(packets) + 1 ELSE servers[0].sending
             index == servers[0].next_index
             last == index = (IF new THEN size ELSE packets[packet].size) - 1
         IN /\ new => Len(packets) < SoundPackets
            /\ ~new => size = 1
            /\ ServerCanTransmit(servers[0], index)
            /\ packets' = IF new
                          THEN Append(packets, [source |-> 0, destination |-> 0,
                                                size |-> size])
                          ELSE packets
            /\ servers' = [servers EXCEPT
                   ![0] = [StatusAtServerNotifyOutcomingPhit(@) EXCEPT
                              !.sending = IF last THEN 0 ELSE packet,
                              !.next_index = IF last THEN 0 ELSE index + 1]]
            /\ queue' = queue (+) SetToBag({EventPhitToLocation(SoundLinkDelay,
                            [packet |-> packet, index |-> index,
                             virtual_channel |-> None],
                            ServerNeighbour(0))})
    /\ phase' = phase \cup {<<"send", 0>>}
    /\ net_log' = [net_log EXCEPT !.last = NothingDone]
    /\ UNCHANGED routers

\* AgnosticParallelBuffers::insert of the phit that arrives.
SoundInsert ==
    /\ ~routers[0].panicked
    /\ NextEvent # NoEvent
    /\ NextEvent.kind = "PhitToLocation"
    /\ LET phit == NextEvent.phit
           A == routers[0]
           good == IF IsBegin(phit) THEN Good(A, packets[phit.packet].size)
                   ELSE {A.currently_selected}
       IN IF good = {}
          THEN /\ routers' = [routers EXCEPT ![0].panicked = TRUE]
               /\ UNCHANGED net_log
          ELSE \E vc \in good :
                 /\ routers' = [routers EXCEPT
                        ![0].buffers[vc] = Append(@, [phit EXCEPT !.virtual_channel = vc]),
                        ![0].currently_selected = vc]
                 /\ net_log' = [net_log EXCEPT
                        !.last = [kind |-> "insert", phit |-> phit, vc |-> vc,
                                  before |-> A.buffer_size - Len(A.buffers[vc]),
                                  message |-> NoMessage]]
    /\ queue' = Served(queue, NextEvent)
    /\ UNCHANGED <<servers, packets, phase>>

\* AgnosticParallelBuffers::extract of the front of a buffer; the message
\* goes to the server.  A buffer gives at most a phit each cycle.
SoundExtract(vc) ==
    /\ ~routers[0].panicked
    /\ NextEvent = NoEvent
    /\ <<"extract", vc>> \notin phase
    /\ routers[0].buffers[vc] # <<>>
    /\ LET A == [routers[0] EXCEPT !.buffers[vc] = Tail(@)]
           message == AgnosticExtractMessage(A)
       IN /\ routers' = [routers EXCEPT ![0] = A]
          /\ queue' = queue (+) SetToBag({EventAcknowledge(SoundLinkDelay,
                          [kind |-> "ServerPort", index |-> 0, port |-> 0], message)})
          /\ net_log' = [net_log EXCEPT
                 !.last = [kind |-> "extract", phit |-> Head(routers[0].buffers[vc]),
                           vc |-> vc, before |-> 0, message |-> message]]
    /\ phase' = phase \cup {<<"extract", vc>>}
    /\ UNCHANGED <<servers, packets>>

\* StatusAtServer::acknowledge of the message that arrives.
SoundAcknowledge ==
    /\ ~routers[0].panicked
    /\ NextEvent # NoEvent
    /\ NextEvent.kind = "Acknowledge"
    /\ servers' = [servers EXCEPT
           ![0] = StatusAtServerAcknowledge(@, NextEvent.message)]
    /\ net_log' = [net_log EXCEPT
           !.last = [kind |-> "acknowledge", phit |-> NoPhit, vc |-> None,
                     before |-> servers[0].available_size,
                     message |-> NextEvent.message]]
    /\ queue' = Served(queue, NextEvent)
    /\ UNCHANGED <<routers, packets, phase>>

\* The cycle ends.
SoundCycle ==
    /\ ~routers[0].panicked
    /\ NextEvent = NoEvent
    /\ queue # EmptyBag \/ phase # {}
    /\ queue' = Later(queue)
    /\ phase' = {}
    /\ net_log' = [net_log EXCEPT !.last = NothingDone]
    /\ UNCHANGED <<routers, servers, packets>>

InitSound ==
    /\ IdleISLIP
    /\ updown = NoRouting
    /\ routers = [r \in {0} |-> AgnosticParallelBuffersNew(SoundBufferSize)]
    /\ servers = [s \in {0} |-> StatusAtServerNew(SoundBufferSize, SoundSizeToSend)]
    /\ packets = <<>>
    /\ queue = EmptyBag
    /\ phase = {}
    /\ net_log = [last |-> NothingDone]

NextSound ==
    \/ SoundSend /\ UNCHANGED <<islip_vars, updown>>
    \/ SoundInsert /\ UNCHANGED <<islip_vars, updown>>
    \/ \E vc \in VCs : SoundExtract(vc) /\ UNCHANGED <<islip_vars, updown>>
    \/ SoundAcknowledge /\ UNCHANGED <<islip_vars, updown>>
    \/ SoundCycle /\ UNCHANGED <<islip_vars, updown>>

SpecSound == InitSound /\ [][NextSound]_vars

\* C39: with a link of delay 1 the available_size of the server never goes
\* below 0, every head that arrives finds a buffer with room for its whole
\* packet ('There is no space for the packet' is not reached), and no
\* buffer holds more than buffer_size phits.
C39_FlowControlSound ==
    /\ ~servers[0].underflow
    /\ servers[0].available_size >= 0
    /\ ~routers[0].panicked
    /\ \A v \in VCs : Len(routers[0].buffers[v]) <= routers[0].buffer_size

\* The head of a packet sent thanks to an acknowledgement gets into a buffer
\* that has just the room for its packet while the other buffer has less.
C39_Witness ==
    /\ net_log.last.kind = "insert"
    /\ IsBegin(net_log.last.phit)
    /\ net_log.last.phit.packet > 2
    /\ packets[net_log.last.phit.packet].size = net_log.last.before
    /\ \A v \in VCs \ {net_log.last.vc} :
           routers[0].buffer_size - Len(routers[0].buffers[v]) < net_log.last.before

(***************************************************************************)
(* The Basic router with output buffers: the phits of two input virtual    *)
(* channels of a port go to the virtual channels of an output port through *)
(* its output buffers.  The policies end with EnforceFlowControl, the      *)
(* bubble is off, and the neighbour returns the credits when it pleases.   *)
(***************************************************************************)

\* The largest output_buffer_size and flit_size of a configuration, and the
\* packets that arrive in a run.
MaxOutputBufferSize == 2
MaxFlitSize == 2
MaxForwarded == 3

\* The port the phits arrive by and the port they leave by.
EntryPort == 1
ExitPort == 0

FullOutputBuffer == "Trying to move into a full output buffer."
CannotTransmit == "cannot transmit phit but it should"

\* Basic::new with output buffers
BasicNewOutputBuffers(output_buffer_size, flit_size) ==
    [reception_port_space |-> [p \in {EntryPort} |-> [v \in VCs |-> <<>>]],
     neighbour_credits |-> [p \in {ExitPort} |-> [v \in VCs |-> BufferSize]],
     selected_input |-> [p \in {ExitPort} |-> [v \in VCs |-> NoSelection]],
     selected_output |-> [p \in {EntryPort} |-> [v \in VCs |-> NoSelection]],
     output_buffers |-> [p \in {ExitPort} |-> [v \in VCs |-> <<>>]],
     output_buffer_size |-> output_buffer_size,
     flit_size |-> flit_size,
     maximum_packet_size |-> MaximumPacketSize,
     port_token |-> [p \in {ExitPort} |-> 0],
     arriving |-> [v \in VCs |-> NoPhit],
     abort |-> NoAbort]

\* Basic::can_phit_advance, with output buffers
CanPhitAdvanceInternal(R, phit, exit_port, exit_vc, bubble_in_use) ==
    LET available_internal_space ==
            R.output_buffer_size - Len(R.output_buffers[exit_port][exit_vc])
        necessary_credits ==
            IF IsBegin(phit)
            THEN IF bubble_in_use
                 THEN packets[phit.packet].size + R.maximum_packet_size
                 ELSE R.flit_size
            ELSE 1
    IN available_internal_space >= necessary_credits

\* The requests of the undecided heads that pass EnforceFlowControl, as
\* pairs of entry and exit virtual channels.
AdmittedRequests(R) ==
    {q \in VCs \X VCs :
        /\ R.reception_port_space[EntryPort][q[1]] # <<>>
        /\ R.selected_output[EntryPort][q[1]] = NoSelection
        /\ IsBegin(Head(R.reception_port_space[EntryPort][q[1]]))
        /\ CanPhitAdvanceInternal(R, Head(R.reception_port_space[EntryPort][q[1]]),
                                  ExitPort, q[2], FALSE)}

\* The requests that commit when the policies keep the requests of
\* `request` and they are served in some order: a request commits when its
\* selected_input and its selected_output are both empty.
Matchings(R, request) ==
    {m \in SUBSET request :
        /\ \A a \in m, b \in m : a # b => a[1] # b[1] /\ a[2] # b[2]
        /\ \A a \in m : R.selected_input[ExitPort][a[2]] = NoSelection
        /\ \A q \in request :
               \/ R.selected_input[ExitPort][q[2]] # NoSelection
               \/ \E a \in m : a[1] = q[1] \/ a[2] = q[2]}

Committed(R, m) ==
    [R EXCEPT
       !.selected_input[ExitPort] =
           [v \in VCs |->
               IF \E a \in m : a[2] = v
               THEN LET a == CHOOSE a \in m : a[2] = v
                    IN Selection(Head(R.reception_port_space[EntryPort][a[1]]).packet,
                                 EntryPort, a[1])
               ELSE @[v]],
       !.selected_output[EntryPort] =
           [v \in VCs |->
               IF \E a \in m : a[1] = v
               THEN LET a == CHOOSE a \in m : a[1] = v
                    IN Selection(Head(R.reception_port_space[EntryPort][a[1]]).packet,
                                 ExitPort, a[2])
               ELSE @[v]]]

\* Basic::process, the move of the front phit of the input assigned to an
\* output virtual channel into its output buffer.
MoveIntoOutputBuffer(R, exit_vc) ==
    LET sel == R.selected_input[ExitPort][exit_vc] IN
    IF sel = NoSelection \/ R.reception_port_space[sel.port][sel.vc] = <<>> THEN R
    ELSE IF Len(R.output_buffers[ExitPort][exit_vc]) >= R.output_buffer_size
    THEN [R EXCEPT !.abort = FullOutputBuffer]
    ELSE
      LET phit == Head(R.reception_port_space[sel.port][sel.vc])
          released ==
              IF IsEnd(phit)
              THEN [R EXCEPT !.selected_input[ExitPort][exit_vc] = NoSelection,
                             !.selected_output[sel.port][sel.vc] = NoSelection]
              ELSE [R EXCEPT !.selected_output[sel.port][sel.vc] =
                                 Selection(sel.packet, ExitPort, exit_vc)]
      IN [released EXCEPT
            !.reception_port_space[sel.port][sel.vc] = Tail(@),
            !.output_buffers[ExitPort][exit_vc] =
                Append(@, [phit EXCEPT !.virtual_channel = exit_vc])]

RECURSIVE MoveAll(_, _)
MoveAll(R, exit_vc) ==
    IF exit_vc >= NumVC \/ R.abort # NoAbort THEN R
    ELSE MoveAll(MoveIntoOutputBuffer(R, exit_vc), exit_vc + 1)

\* CreditCounterVector::can_transmit of the front of an output buffer.
FrontCanTransmit(R, exit_vc) ==
    R.neighbour_credits[ExitPort][exit_vc]
        >= (IF IsBegin(Head(R.output_buffers[ExitPort][exit_vc]))
            THEN R.flit_size ELSE 1)

\* The output virtual channels whose output buffer has a front phit that
\* can be transmitted; the phits in transit go before the heads.
CandOutput(R) ==
    LET can == {v \in VCs : /\ R.output_buffers[ExitPort][v] # <<>>
                            /\ FrontCanTransmit(R, v)}
        cand_in_transit == {v \in can : ~IsBegin(Head(R.output_buffers[ExitPort][v]))}
    IN IF cand_in_transit # {} THEN cand_in_transit ELSE can

\* A phit of the first flit_size of its packet that cannot be transmitted.
ShouldTransmit(R) ==
    \E v \in VCs :
        /\ R.output_buffers[ExitPort][v] # <<>>
        /\ ~FrontCanTransmit(R, v)
        /\ 0 < Head(R.output_buffers[ExitPort][v]).index
        /\ Head(R.output_buffers[ExitPort][v]).index < R.flit_size

\* Basic::process, the output port: a phit leaves the output buffer that
\* the token arbiter picks.
TransmitFromOutputBuffers(R) ==
    IF R.abort # NoAbort THEN R
    ELSE IF ShouldTransmit(R) THEN [R EXCEPT !.abort = CannotTransmit]
    ELSE IF CandOutput(R) = {} THEN R
    ELSE LET best == TokenBest(R, ExitPort, CandOutput(R))
             phit == Head(R.output_buffers[ExitPort][best])
         IN [R EXCEPT
               !.output_buffers[ExitPort][best] = Tail(@),
               !.neighbour_credits[ExitPort][best] = @ - 1,
               !.port_token[ExitPort] = IF IsEnd(phit) THEN (best + 1) % NumVC ELSE best]

\* Basic::insert of a phit that arrives by a virtual channel of the entry
\* port: the next of the packet that is arriving by it, or the head of a
\* new packet.
InsertForwarded(vc, size) ==
    /\ routers[0].abort = NoAbort
    /\ Len(routers[0].reception_port_space[EntryPort][vc]) < BufferSize
    /\ LET last == routers[0].arriving[vc]
           new == last = NoPhit
           phit == IF new
                   THEN [packet |-> Len(packets) + 1, index |-> 0, virtual_channel |-> vc]
                   ELSE [last EXCEPT !.index = @ + 1]
       IN /\ new => Len(packets) < MaxForwarded
          /\ ~new => size = packets[last.packet].size
          /\ packets' = IF new
                        THEN Append(packets, [source |-> 0, destination |-> 0,
                                              size |-> size])
                        ELSE packets
          /\ routers' = [routers EXCEPT
                 ![0].reception_port_space[EntryPort][vc] = Append(@, phit),
                 ![0].arriving[vc] = IF phit.index = size - 1 THEN NoPhit ELSE phit]
    /\ UNCHANGED <<servers, queue, phase, net_log>>

\* Basic::process with output buffers: the requests, the arbitration, the
\* moves into the output buffers and the transmission.
ProcessOutputBuffers ==
    /\ routers[0].abort = NoAbort
    /\ \E request \in SUBSET AdmittedRequests(routers[0]) :
         \E m \in Matchings(routers[0], request) :
           routers' = [routers EXCEPT
               ![0] = TransmitFromOutputBuffers(MoveAll(Committed(@, m), 0))]
    /\ UNCHANGED <<servers, packets, queue, phase, net_log>>

\* CreditCounterVector::acknowledge: the neighbour returns a credit.
AcknowledgeForwarded(vc) ==
    /\ routers[0].abort = NoAbort
    /\ routers[0].neighbour_credits[ExitPort][vc] < BufferSize
    /\ routers' = [routers EXCEPT ![0].neighbour_credits[ExitPort][vc] = @ + 1]
    /\ UNCHANGED <<servers, packets, queue, phase, net_log>>

InitOutputBuffers ==
    /\ IdleISLIP
    /\ updown = NoRouting
    /\ \E output_buffer_size \in 1..MaxOutputBufferSize, flit_size \in 1..MaxFlitSize :
           routers = [r \in {0} |-> BasicNewOutputBuffers(output_buffer_size, flit_size)]
    /\ servers = <<>>
    /\ packets = <<>>
    /\ queue = EmptyBag
    /\ phase = {}
    /\ net_log = NothingDone

NextOutputBuffers ==
    \/ \E vc \in VCs, size \in 1..MaximumPacketSize :
           InsertForwarded(vc, size) /\ UNCHANGED <<islip_vars, updown>>
    \/ ProcessOutputBuffers /\ UNCHANGED <<islip_vars, updown>>
    \/ \E vc \in VCs : AcknowledgeForwarded(vc) /\ UNCHANGED <<islip_vars, updown>>

SpecOutputBuffers == InitOutputBuffers /\ [][NextOutputBuffers]_vars

\* C40: with output_buffer_size > 0 and EnforceFlowControl at the end of the
\* policies, for every flit_size and every size of packet, no output buffer
\* holds more than output_buffer_size phits and 'Trying to move into a full
\* output buffer' is not reached.
C40_OutputBuffersNeverOverflow ==
    /\ routers[0].abort # FullOutputBuffer
    /\ \A v \in VCs :
           Len(routers[0].output_buffers[ExitPort][v]) <= routers[0].output_buffer_size

\* What the code keeps: no overflow when no packet is larger than a flit.
NoOverflowWithinFlit ==
    routers[0].flit_size >= MaximumPacketSize => C40_OutputBuffersNeverOverflow

====
